---- MODULE Spec2Model ----
(***************************************************************************)
(* Model of the multi-signal trust-scoring pipeline of FakeCatcher++:      *)
(* the Hugging Face AI detector client (cache, retry, two-tier fallback),  *)
(* the ensemble combiner of the resume pipeline, the job-posting content   *)
(* analysis, and the score calculators of the job pipeline.                *)
(*                                                                         *)
(* Python strings are modelled as sequences of one-character strings, so   *)
(* that `key in text`, .lower() and .upper() are computed, not assumed.    *)
(* Probabilities and scores are integers in hundredths of a point          *)
(* (100.00 is 10000); model confidences and weights are integers in        *)
(* hundredths (0.70 is 70).                                                *)
(***************************************************************************)
EXTENDS Integers, Sequences, FiniteSets, TLC

VARIABLES
    \* ---- HuggingFaceAIClient (hf_client.py)
    cache_enabled,    \* settings.AI_CACHE_ENABLED: self.cache is a TTLCache, else None
    cache,            \* self.cache: function from cache keys to stored results
    pc,               \* position of detect_ai_generated_content: idle, primary, secondary, done
    text,             \* resume_text of the call in progress
    attempts,         \* outcome kinds of the attempts of the latest _make_api_request
    requested,        \* models requested so far in this call, in order
    primary_result,   \* what _try_ai_detector_model returned
    secondary_result, \* what _try_classification_model returned
    ret,              \* how the call ended: returned a value, or raised
    requests,         \* HTTP requests issued by this call
    all_timed_out,    \* every attempt of this call so far ended in a timeout
    last_valid,       \* the latest earlier call that returned a valid score
    raw_response,     \* the JSON body that the latest _process_*_response was given
    \* ---- EnhancedResumeAnalyzer (ensemble.py) and JobPostingAnalyzer (job_analyzer.py)
    ai_enabled,       \* settings.AI_DETECTION_ENABLED
    api_key,          \* settings.HUGGINGFACE_API_KEY is not empty
    ai_weight,        \* settings.AI_ENSEMBLE_WEIGHT, in hundredths
    rule_weight,      \* settings.RULE_BASED_WEIGHT, in hundredths
    entry,            \* entry point of the latest request: none, resume, job
    detector_invoked, \* the latest request called detect_ai_generated_content
    rule_results,     \* what ResumeAnalyzer.analyze_text returned
    ai_results,       \* how detect_ai_generated_content ended for the latest request
    analysis_result,  \* analysis_result of comprehensive_analysis
    trust_score,      \* trust_score of comprehensive_analysis
    content_analysis, \* content_analysis of analyze_job_posting
    analysis_call,    \* where the latest request stands: at its await of the detector, returned, raised
    \* ---- CompanyVerifier, WebIntelligenceEngine, JobTrustScoreCalculator
    score_op,             \* what the job pipeline computed last (none, company, web, score)
                          \* or awaits (company_gathering, web_gathering)
    company_verification, \* what verify_company returned
    web_intelligence,     \* what analyze_web_presence returned
    job_trust_score,      \* what calculate_job_trust_score returned
    analysis_components,  \* the analysis_components given to calculate_job_trust_score
    gather,               \* the batch of checks of the orchestrator that is running
    \* ---- JobPostingAnalyzer.analyze_job_posting (job_analyzer.py)
    job,                  \* the request that analyze_job_posting is working on
    \* ---- ResumeAnalyzer (analyzer.py)
    fixture,              \* the text given to analyze_text, by the features the analyzer reads
    \* ---- WebIntelligenceEngine sessions (web_intelligence.py)
    engine,               \* self.session, the open sessions and the requests in analyze_web_presence
    \* ---- CompanyVerifier domain checks (company_verifier.py)
    reputation_info,      \* _check_domain_reputation: its position, the requests it sent, reputation_info
    domain_info           \* _check_domain_info: the lookups it made, domain_info

clientVars == <<cache_enabled, cache, pc, text, attempts, requested, primary_result,
                secondary_result, ret, requests, all_timed_out, last_valid, raw_response>>

analysisVars == <<ai_enabled, api_key, ai_weight, rule_weight, entry, detector_invoked,
                  rule_results, ai_results, analysis_result, trust_score, content_analysis,
                  analysis_call>>

scoreVars == <<score_op, company_verification, web_intelligence, job_trust_score,
               analysis_components, gather>>

jobVars == <<job>>

ruleVars == <<fixture>>

webVars == <<engine>>

verifierVars == <<reputation_info, domain_info>>

vars == <<clientVars, analysisVars, scoreVars, jobVars, ruleVars, webVars, verifierVars>>

-----------------------------------------------------------------------------
(* Strings *)

LowerMap == [A |-> "a", B |-> "b", C |-> "c", D |-> "d", E |-> "e", F |-> "f", G |-> "g", H |-> "h", I |-> "i", J |-> "j", K |-> "k", L |-> "l", M |-> "m", N |-> "n", O |-> "o", P |-> "p", Q |-> "q", R |-> "r", S |-> "s", T |-> "t", U |-> "u", V |-> "v", W |-> "w", X |-> "x", Y |-> "y", Z |-> "z"]

UpperMap == [a |-> "A", b |-> "B", c |-> "C", d |-> "D", e |-> "E", f |-> "F", g |-> "G", h |-> "H", i |-> "I", j |-> "J", k |-> "K", l |-> "L", m |-> "M", n |-> "N", o |-> "O", p |-> "P", q |-> "Q", r |-> "R", s |-> "S", t |-> "T", u |-> "U", v |-> "V", w |-> "W", x |-> "X", y |-> "Y", z |-> "Z"]

\* str.lower()
Lower(s) == [i \in 1..Len(s) |-> IF s[i] \in DOMAIN LowerMap THEN LowerMap[s[i]] ELSE s[i]]

\* str.upper()
Upper(s) == [i \in 1..Len(s) |-> IF s[i] \in DOMAIN UpperMap THEN UpperMap[s[i]] ELSE s[i]]

\* Python's `sub in s` on strings
Contains(s, sub) == \E i \in 1..(Len(s) - Len(sub) + 1) : SubSeq(s, i, i + Len(sub) - 1) = sub

\* str.startswith
StartsWith(s, p) == Len(p) <= Len(s) /\ SubSeq(s, 1, Len(p)) = p

Min(a, b) == IF a <= b THEN a ELSE b

Max(a, b) == IF a >= b THEN a ELSE b

\* abs()
Abs(x) == IF x >= 0 THEN x ELSE 0 - x

\* n / d lies exactly halfway between two integers; d > 0
IsTie(n, d) == 2 * (n % d) = d

\* n / d rounded to the nearest integer as Python's round() of the float does;
\* d > 0. The float nearest to a decimal tie lies just under or just over it,
\* which the decimal digits do not tell: up says which way such a value goes
RoundDiv(n, d, up) ==
    LET q == n \div d
        r == n % d
    IN  IF 2 * r < d THEN q
        ELSE IF 2 * r > d THEN q + 1
        ELSE IF up THEN q + 1 ELSE q

-----------------------------------------------------------------------------
(* Bounds of the model *)

MaxPrefix == 2

\* The client reads a text through text[:100], the prefix that makes the cache
\* key.  Prefix 0 is a prefix holding a lone surrogate, which str.encode()
\* cannot encode; the others are distinct encodable prefixes.
Texts == [prefix : 0..MaxPrefix]

-----------------------------------------------------------------------------
(* HuggingFaceAIClient *)

AiDetectorModel == "Hello-SimpleAI/chatgpt-detector-roberta"

ClassificationModel == "facebook/bart-large-mnli"

\* stop_after_attempt(3)
MaxAttempts == 3

\* retry_if_exception_type((httpx.TimeoutException, httpx.ConnectError))
Retryable(kind) == kind \in {"timeout", "connect_error"}

\* str() of the tenacity.RetryError raised once the attempts are used up:
\* "RetryError[<Future at 0x... state=finished raised ReadTimeout>]".  The
\* address differs from run to run and is made of hexadecimal digits.
StrRetryError(cls) ==
    <<"R","e","t","r","y","E","r","r","o","r","[","<","F","u","t","u","r","e"," ","a","t"," ","0","x","7","f","3","a","5","c","1","d","2","e","9","0"," ","s","t","a","t","e","=","f","i","n","i","s","h","e","d"," ","r","a","i","s","e","d"," ">> \o cls \o <<">","]">>

\* What one attempt of client.post / raise_for_status / response.json() can do
NoBody == [shape |-> "none", label |-> <<>>, score |-> 0, labels |-> <<>>, scores |-> <<>>]

Failures == {
    [kind |-> "timeout", cls |-> <<"R","e","a","d","T","i","m","e","o","u","t">>, msg |-> <<>>, body |-> NoBody],
    [kind |-> "connect_error", cls |-> <<"C","o","n","n","e","c","t","E","r","r","o","r">>,
     msg |-> <<"A","l","l"," ","c","o","n","n","e","c","t","i","o","n"," ","a","t","t","e","m","p","t","s"," ","f","a","i","l","e","d">>, body |-> NoBody],
    [kind |-> "http_error", cls |-> <<"H","T","T","P","S","t","a","t","u","s","E","r","r","o","r">>,
     msg |-> <<"C","l","i","e","n","t"," ","e","r","r","o","r"," ","'","4","0","1"," ","U","n","a","u","t","h","o","r","i","z","e","d","'"," ","f","o","r"," ","u","r","l">>, body |-> NoBody],
    [kind |-> "http_error", cls |-> <<"H","T","T","P","S","t","a","t","u","s","E","r","r","o","r">>,
     msg |-> <<"S","e","r","v","e","r"," ","e","r","r","o","r"," ","'","5","0","3"," ","S","e","r","v","i","c","e"," ","U","n","a","v","a","i","l","a","b","l","e","'"," ","f","o","r"," ","u","r","l">>, body |-> NoBody],
    [kind |-> "malformed", cls |-> <<"J","S","O","N","D","e","c","o","d","e","E","r","r","o","r">>,
     msg |-> <<"E","x","p","e","c","t","i","n","g"," ","v","a","l","u","e",":"," ","l","i","n","e"," ","1"," ","c","o","l","u","m","n"," ","1"," ","(","c","h","a","r"," ","0",")">>, body |-> NoBody] }

\* JSON bodies of a 200 response, the scores in ten-thousandths.  list_label_score is [{"label": l, "score": s}],
\* list_empty is [], list_bad_score is [{"label": l, "score": "<string>"}],
\* list_ai_probability is [{"ai_probability": score, "confidence": scores[1]}]
\* (score is the ai_probability in hundredths of a point, scores empty without the key),
\* list_candidates is [{"label": labels[1], "score": scores[1]}, ...] with several
\* candidates, list_nested is the same list inside a list, dict_other is a dict
\* with neither labels nor scores such as {"estimated_time": 20.0},
\* dict_labels_scores is {"labels": [...], "scores": [...]}, dict_bad_scores is
\* the same with the scores given as strings.
PrimaryBodies == {
    [shape |-> "list_label_score", label |-> <<"F","a","k","e">>, score |-> 9200, labels |-> <<>>, scores |-> <<>>],
    [shape |-> "list_label_score", label |-> <<"R","e","a","l">>, score |-> 5500, labels |-> <<>>, scores |-> <<>>],
    [shape |-> "list_empty", label |-> <<>>, score |-> 0, labels |-> <<>>, scores |-> <<>>],
    [shape |-> "list_bad_score", label |-> <<"R","e","a","l">>, score |-> 0, labels |-> <<>>, scores |-> <<>>],
    [shape |-> "list_bad_score", label |-> <<"F","a","k","e">>, score |-> 0, labels |-> <<>>, scores |-> <<>>],
    [shape |-> "list_ai_probability", label |-> <<>>, score |-> 8500, labels |-> <<>>, scores |-> <<9000>>],
    [shape |-> "list_ai_probability", label |-> <<>>, score |-> 3000, labels |-> <<>>, scores |-> <<>>],
    [shape |-> "list_candidates", label |-> <<>>, score |-> 0,
     labels |-> << <<"R","e","a","l">>, <<"F","a","k","e">>, <<"M","i","x","e","d">> >>, scores |-> <<2000, 5000, 3000>>],
    [shape |-> "list_nested", label |-> <<>>, score |-> 0,
     labels |-> << <<"F","a","k","e">>, <<"R","e","a","l">> >>, scores |-> <<9200, 800>>],
    [shape |-> "dict_other", label |-> <<>>, score |-> 0, labels |-> <<>>, scores |-> <<>>] }

SecondaryBodies == {
    [shape |-> "dict_labels_scores", label |-> <<>>, score |-> 0,
     labels |-> << <<"h","u","m","a","n","_","w","r","i","t","t","e","n">>, <<"a","i","_","g","e","n","e","r","a","t","e","d">>, <<"c","o","m","p","u","t","e","r","_","g","e","n","e","r","a","t","e","d">> >>,
     scores |-> <<7000, 2000, 1000>>],
    [shape |-> "dict_labels_scores", label |-> <<>>, score |-> 0,
     labels |-> << <<"a","i","_","g","e","n","e","r","a","t","e","d">>, <<"c","o","m","p","u","t","e","r","_","g","e","n","e","r","a","t","e","d">>, <<"h","u","m","a","n","_","w","r","i","t","t","e","n">> >>,
     scores |-> <<7800, 1500, 700>>],
    [shape |-> "dict_bad_scores", label |-> <<>>, score |-> 0,
     labels |-> << <<"a","i","_","g","e","n","e","r","a","t","e","d">>, <<"h","u","m","a","n","_","w","r","i","t","t","e","n">> >>, scores |-> <<>>],
    [shape |-> "list_label_score", label |-> <<"F","a","k","e">>, score |-> 9200, labels |-> <<>>, scores |-> <<>>],
    [shape |-> "dict_other", label |-> <<>>, score |-> 0, labels |-> <<>>, scores |-> <<>>] }

RemoteOutcomes(model) ==
    Failures \cup
    {[kind |-> "ok", cls |-> <<>>, msg |-> <<>>, body |-> b] :
        b \in IF model = AiDetectorModel THEN PrimaryBodies ELSE SecondaryBodies}

\* _determine_confidence_level, model_confidence in ten-thousandths
DetermineConfidenceLevel(model_confidence) ==
    IF model_confidence >= 9000 THEN <<"V","e","r","y"," ","H","i","g","h"," ","C","o","n","f","i","d","e","n","c","e"," ","-"," ","A","I"," ","E","n","h","a","n","c","e","d">>
    ELSE IF model_confidence >= 7500 THEN <<"H","i","g","h"," ","C","o","n","f","i","d","e","n","c","e"," ","-"," ","A","I"," ","E","n","h","a","n","c","e","d">>
    ELSE IF model_confidence >= 6000 THEN <<"M","e","d","i","u","m","-","H","i","g","h"," ","C","o","n","f","i","d","e","n","c","e"," ","-"," ","A","I"," ","E","n","h","a","n","c","e","d">>
    ELSE IF model_confidence >= 4000 THEN <<"M","e","d","i","u","m"," ","C","o","n","f","i","d","e","n","c","e"," ","-"," ","A","I"," ","E","n","h","a","n","c","e","d">>
    ELSE <<"L","o","w"," ","C","o","n","f","i","d","e","n","c","e"," ","-"," ","A","I"," ","E","n","h","a","n","c","e","d">>

\* _create_analysis_result: ai_probability (hundredths of a point) is clamped;
\* round(ai_prob, 2) leaves a score of four decimals times 100 as it is
CreateAnalysisResult(ai_probability, confidence_score, method) ==
    [form |-> "analysis",
     fallback_mode |-> FALSE,
     ai_probability |-> Max(0, Min(10000, ai_probability)),
     confidence_level |-> DetermineConfidenceLevel(confidence_score),
     analysis_method |-> method,
     model_used |-> IF method = "huggingface_ai_detector" THEN AiDetectorModel
                    ELSE ClassificationModel,
     error |-> <<>>]

\* {"fallback_mode": True, "error": str(e)}
ModelFallback(error) ==
    [form |-> "model_fallback", fallback_mode |-> TRUE, ai_probability |-> 0,
     confidence_level |-> <<>>, analysis_method |-> "", model_used |-> "", error |-> error]

\* no value yet
Pending ==
    [form |-> "pending", fallback_mode |-> FALSE, ai_probability |-> 0,
     confidence_level |-> <<>>, analysis_method |-> "", model_used |-> "", error |-> <<>>]

\* any(keyword in label for keyword in ['FAKE', 'AI', 'GENERATED', 'MACHINE', 'BOT'])
IsAiLabelUpper(label) ==
    \E kw \in { <<"F","A","K","E">>, <<"A","I">>, <<"G","E","N","E","R","A","T","E","D">>, <<"M","A","C","H","I","N","E">>, <<"B","O","T">> } : Contains(label, kw)

\* result = raw_response[0] of a list of label and score dicts
FirstResult(raw) ==
    IF raw.shape = "list_candidates" THEN [label |-> raw.labels[1], score |-> raw.scores[1]]
    ELSE [label |-> raw.label, score |-> raw.score]

\* _process_ai_detector_response: the branch for a list as first element is
\* inside `if isinstance(result, dict)` and is never taken
ProcessAiDetectorResponse(raw) ==
    IF raw.shape \in {"list_label_score", "list_candidates"}
    THEN LET result == FirstResult(raw)
         IN  IF IsAiLabelUpper(Upper(result.label))
             THEN CreateAnalysisResult(result.score, result.score,
                                       "huggingface_ai_detector")
             ELSE CreateAnalysisResult(10000 - result.score, result.score,
                                       "huggingface_ai_detector")
    ELSE IF raw.shape = "list_bad_score"
    THEN IF IsAiLabelUpper(Upper(raw.label))
         \* score * 100 repeats the string, which the log line cannot format
         THEN ModelFallback(<<"U","n","k","n","o","w","n"," ","f","o","r","m","a","t"," ","c","o","d","e"," ","'","f","'"," ","f","o","r"," ","o","b","j","e","c","t"," ","o","f"," ","t","y","p","e"," ","'","s","t","r","'">>)
         ELSE ModelFallback(<<"u","n","s","u","p","p","o","r","t","e","d"," ","o","p","e","r","a","n","d"," ","t","y","p","e","(","s",")"," ","f","o","r"," ","-",":"," ","'","i","n","t","'"," ","a","n","d"," ","'","s","t","r","'">>)
    ELSE IF raw.shape = "list_ai_probability"
    THEN CreateAnalysisResult(raw.score,
                              IF raw.scores = <<>> THEN 5000 ELSE raw.scores[1],
                              "huggingface_ai_detector")
    ELSE CreateAnalysisResult(0, 5000, "huggingface_ai_detector")

\* any(keyword in label_lower for keyword in ['ai', 'generated', 'computer', 'machine', 'artificial'])
IsAiLabelLower(label_lower) ==
    \E kw \in { <<"a","i">>, <<"g","e","n","e","r","a","t","e","d">>, <<"c","o","m","p","u","t","e","r">>, <<"m","a","c","h","i","n","e">>, <<"a","r","t","i","f","i","c","i","a","l">> } :
        Contains(label_lower, kw)

\* _process_classification_response
ProcessClassificationResponse(raw) ==
    IF raw.shape = "dict_labels_scores"
    THEN LET labels == raw.labels
             scores == raw.scores
             aiIdx == {i \in 1..Min(Len(labels), Len(scores)) : IsAiLabelLower(Lower(labels[i]))}
             first == IF aiIdx = {} THEN 0 ELSE CHOOSE i \in aiIdx : \A j \in aiIdx : i <= j
             p1 == IF first = 0 THEN 0 ELSE scores[first]
             c1 == IF first = 0 THEN 5000 ELSE scores[first]
             humanIdx == {i \in 1..Len(labels) : Contains(Lower(labels[i]), <<"h","u","m","a","n">>)}
             hfirst == IF humanIdx = {} THEN 0
                       ELSE CHOOSE i \in humanIdx : \A j \in humanIdx : i <= j
             tryHuman == p1 = 0 /\ Len(scores) > 0 /\ Len(labels) > 0 /\ hfirst # 0
             indexError == tryHuman /\ hfirst > Len(scores)
             p2 == IF tryHuman /\ ~indexError THEN 10000 - scores[hfirst] ELSE p1
             c2 == IF tryHuman /\ ~indexError THEN scores[hfirst] ELSE c1
             useFirst == p2 = 0 /\ Len(scores) > 0
             p3 == IF useFirst THEN 10000 - scores[1] ELSE p2
             c3 == IF useFirst THEN scores[1] ELSE c2
         IN  IF indexError THEN ModelFallback(<<"l","i","s","t"," ","i","n","d","e","x"," ","o","u","t"," ","o","f"," ","r","a","n","g","e">>)
             ELSE CreateAnalysisResult(p3, c3, "huggingface_classification")
    ELSE IF raw.shape = "dict_bad_scores"
    THEN ModelFallback(<<"U","n","k","n","o","w","n"," ","f","o","r","m","a","t"," ","c","o","d","e"," ","'","f","'"," ","f","o","r"," ","o","b","j","e","c","t"," ","o","f"," ","t","y","p","e"," ","'","s","t","r","'">>)
    ELSE CreateAnalysisResult(0, 5000, "huggingface_classification")

\* _generate_cache_key: md5 of text[:100] + model + task
GenerateCacheKey(t, model, task) == <<t.prefix, model, task>>

\* bool(self.cache): None is falsy, and so is a TTLCache holding no entry
CacheTruthy == cache_enabled /\ DOMAIN cache # {}

\* self.cache[cache_key] = result
CacheStore(key, value) ==
    [k \in DOMAIN cache \cup {key} |-> IF k = key THEN value ELSE cache[k]]

\* Mutant of PrimaryAccepted: the fallback_mode test is dropped
PrimaryAcceptedNever(result) == FALSE

\* `if result and not result.get("fallback_mode", False)` after the primary model
PrimaryAccepted(result) == ~result.fallback_mode

\* `if self.cache and result and not result.get("fallback_mode", False)`
ShouldStore(result) == CacheTruthy /\ ~result.fallback_mode

NoReturn == [kind |-> "none", value |-> Pending]

Returned(value) == [kind |-> "returned", value |-> value]

Raised(error) == [kind |-> "raised", value |-> ModelFallback(error)]

NoCall == [text |-> [prefix |-> 0], value |-> Pending]

\* What the attempt ending with outcome o means for _try_*_model: "retry" when
\* tenacity makes a further attempt, else the model's result
ModelOutcome(model, o, made) ==
    IF o.kind = "ok"
    THEN [retry |-> FALSE,
          result |-> IF model = AiDetectorModel THEN ProcessAiDetectorResponse(o.body)
                     ELSE ProcessClassificationResponse(o.body)]
    ELSE IF Retryable(o.kind) /\ made < MaxAttempts
    THEN [retry |-> TRUE, result |-> Pending]
    ELSE IF Retryable(o.kind)
    THEN [retry |-> FALSE, result |-> ModelFallback(StrRetryError(o.cls))]
    ELSE [retry |-> FALSE, result |-> ModelFallback(o.msg)]

\* detect_ai_generated_content, up to the cache lookup
DetectAiGeneratedContent(t) ==
    /\ pc \in {"idle", "done"}
    /\ text' = t
    /\ last_valid' = IF pc = "done" /\ ret.kind = "returned" /\ ~ret.value.fallback_mode
                     THEN [text |-> text, value |-> ret.value]
                     ELSE last_valid
    /\ raw_response' = NoBody
    /\ requests' = 0
    /\ attempts' = <<>>
    /\ requested' = <<>>
    /\ primary_result' = Pending
    /\ secondary_result' = Pending
    /\ all_timed_out' = TRUE
    /\ LET cache_key == GenerateCacheKey(t, AiDetectorModel, "ai_detection")
       IN  IF t.prefix = 0
           THEN /\ ret' = Raised(<<"'","u","t","f","-","8","'"," ","c","o","d","e","c"," ","c","a","n","'","t"," ","e","n","c","o","d","e"," ","c","h","a","r","a","c","t","e","r",":"," ","s","u","r","r","o","g","a","t","e","s"," ","n","o","t"," ","a","l","l","o","w","e","d">>)
                /\ pc' = "done"
           ELSE IF CacheTruthy /\ cache_key \in DOMAIN cache
           THEN /\ ret' = Returned(cache[cache_key])
                /\ pc' = "done"
           ELSE /\ ret' = NoReturn
                /\ pc' = "primary"
    /\ UNCHANGED <<cache_enabled, cache, analysisVars, scoreVars, jobVars, ruleVars, webVars,
                   verifierVars>>

\* one attempt of _make_api_request for the specialized model, and what
\* _try_ai_detector_model and detect_ai_generated_content do with its outcome
TryAiDetectorModel(o) ==
    /\ pc = "primary"
    /\ o \in RemoteOutcomes(AiDetectorModel)
    /\ LET made == Len(attempts) + 1
           m == ModelOutcome(AiDetectorModel, o, made)
           cache_key == GenerateCacheKey(text, AiDetectorModel, "ai_detection")
       IN  /\ attempts' = Append(attempts, o.kind)
           /\ requested' = IF attempts = <<>> THEN Append(requested, AiDetectorModel) ELSE requested
           /\ requests' = requests + 1
           /\ all_timed_out' = (all_timed_out /\ o.kind = "timeout")
           /\ raw_response' = o.body
           /\ IF m.retry
              THEN UNCHANGED <<pc, primary_result, ret, cache>>
              ELSE /\ primary_result' = m.result
                   /\ IF PrimaryAccepted(m.result)
                      THEN /\ cache' = IF CacheTruthy THEN CacheStore(cache_key, m.result) ELSE cache
                           /\ ret' = Returned(m.result)
                           /\ pc' = "done"
                      ELSE /\ pc' = "secondary"
                           /\ UNCHANGED <<ret, cache>>
    /\ UNCHANGED <<cache_enabled, text, secondary_result, last_valid, analysisVars,
                   scoreVars, jobVars, ruleVars, webVars, verifierVars>>

\* one attempt of _make_api_request for the classification model, and what
\* _try_classification_model and detect_ai_generated_content do with its outcome
TryClassificationModel(o) ==
    /\ pc = "secondary"
    /\ o \in RemoteOutcomes(ClassificationModel)
    /\ LET first == Len(requested) = 1
           made == IF first THEN 1 ELSE Len(attempts) + 1
           m == ModelOutcome(ClassificationModel, o, made)
           cache_key == GenerateCacheKey(text, AiDetectorModel, "ai_detection")
       IN  /\ attempts' = IF first THEN <<o.kind>> ELSE Append(attempts, o.kind)
           /\ requested' = IF first THEN Append(requested, ClassificationModel) ELSE requested
           /\ requests' = requests + 1
           /\ all_timed_out' = (all_timed_out /\ o.kind = "timeout")
           /\ raw_response' = o.body
           /\ IF m.retry
              THEN UNCHANGED <<pc, secondary_result, ret, cache>>
              ELSE /\ secondary_result' = m.result
                   /\ cache' = IF ShouldStore(m.result) THEN CacheStore(cache_key, m.result) ELSE cache
                   /\ ret' = Returned(m.result)
                   /\ pc' = "done"
    /\ UNCHANGED <<cache_enabled, text, primary_result, last_valid, analysisVars,
                   scoreVars, jobVars, ruleVars, webVars, verifierVars>>

-----------------------------------------------------------------------------
(* Bounds of the inputs of the analysis entry points *)

\* probabilities of the rule-based analyzer are drawn from a grid of
\* MaxRuleGrid steps over [0, 100]
MaxRuleGrid == 4

\* scores of the remote model are drawn from a grid of MaxScoreGrid steps over [0, 1]
MaxScoreGrid == 5

-----------------------------------------------------------------------------
(* ResumeAnalyzer, TrustScoreCalculator *)

\* _get_confidence_level
GetConfidenceLevel(probability) ==
    IF probability >= 8000 THEN <<"H","i","g","h"," ","C","o","n","f","i","d","e","n","c","e"," ","-"," ","L","i","k","e","l","y"," ","A","I"," ","G","e","n","e","r","a","t","e","d">>
    ELSE IF probability >= 6000 THEN <<"M","e","d","i","u","m","-","H","i","g","h"," ","C","o","n","f","i","d","e","n","c","e"," ","-"," ","P","r","o","b","a","b","l","y"," ","A","I"," ","G","e","n","e","r","a","t","e","d">>
    ELSE IF probability >= 4000 THEN <<"M","e","d","i","u","m"," ","C","o","n","f","i","d","e","n","c","e"," ","-"," ","P","o","s","s","i","b","l","y"," ","A","I"," ","G","e","n","e","r","a","t","e","d">>
    ELSE IF probability >= 2000 THEN <<"L","o","w","-","M","e","d","i","u","m"," ","C","o","n","f","i","d","e","n","c","e"," ","-"," ","U","n","l","i","k","e","l","y"," ","A","I"," ","G","e","n","e","r","a","t","e","d">>
    ELSE <<"L","o","w"," ","C","o","n","f","i","d","e","n","c","e"," ","-"," ","L","i","k","e","l","y"," ","H","u","m","a","n"," ","W","r","i","t","t","e","n">>

\* analyze_text, for a text whose ai_probability is x millionths of a point
\* before rounding: the fields the ensemble reads. ai_probability is rounded to
\* two places, confidence_level is read off the unrounded value (the thresholds
\* are whole hundredths, so the value cut to hundredths compares as x does)
AnalyzeText(x, up) ==
    [ai_probability |-> RoundDiv(x, 10000, up),
     confidence_level |-> GetConfidenceLevel(x \div 10000)]

NoRuleResults == [ai_probability |-> 0, confidence_level |-> <<>>]

\* round(x, 1) of a score in hundredths of a point
Round1(x, up) == RoundDiv(x, 10, up) * 10

\* _get_trust_level
GetTrustLevel(score) ==
    IF score >= 8000 THEN "High Trust - Appears Authentic"
    ELSE IF score >= 6000 THEN "Moderate Trust - Minor Concerns"
    ELSE IF score >= 4000 THEN "Low Trust - Significant Concerns"
    ELSE "Very Low Trust - Major Red Flags"

\* calculate_mvp1_score; the dict has no ai_enhancement_applied key, read as FALSE
CalculateMvp1Score(ai_probability, up) ==
    LET ts == 10000 - ai_probability
    IN  [overall_trust_score |-> Round1(ts, up),
         trust_level |-> GetTrustLevel(ts),
         ai_enhancement_applied |-> FALSE,
         confidence_boost |-> 0]

NoTrustScore ==
    [overall_trust_score |-> 0, trust_level |-> "", ai_enhancement_applied |-> FALSE,
     confidence_boost |-> 0]

-----------------------------------------------------------------------------
(* EnhancedResumeAnalyzer *)

\* values settings.AI_ENSEMBLE_WEIGHT and settings.RULE_BASED_WEIGHT are given
\* in the environment; each is read on its own, the defaults are 0.7 and 0.3
AiWeightSettings == {70, 90}

RuleWeightSettings == {30, 10}

\* in ten-thousandths
ModelScores == {(i * 10000) \div MaxScoreGrid : i \in 0..MaxScoreGrid}

\* scores whose AI probabilities floats do not hold exactly: 16.01 - 1.01 and
\* 32.02 - 2.02 come out just above 15 and 30
FineScores == {1601, 3202}

\* bodies [{"label": l, "score": s}] of the specialized model
DetectorBodies ==
    {[shape |-> "list_label_score", label |-> l, score |-> s, labels |-> <<>>, scores |-> <<>>] :
        l \in { <<"F","a","k","e">>, <<"R","e","a","l">> }, s \in ModelScores}
    \cup {[shape |-> "list_label_score", label |-> <<"F","a","k","e">>, score |-> s, labels |-> <<>>,
           scores |-> <<>>] : s \in FineScores}

\* How detect_ai_generated_content can end for the caller
DetectOutcomes ==
    {Returned(ProcessAiDetectorResponse(b)) : b \in DetectorBodies}
    \cup {Returned(ProcessClassificationResponse(b)) : b \in SecondaryBodies}
    \cup {Returned(ModelFallback(StrRetryError(<<"R","e","a","d","T","i","m","e","o","u","t">>)))}
    \cup {Raised(<<"'","u","t","f","-","8","'"," ","c","o","d","e","c"," ","c","a","n","'","t"," ","e","n","c","o","d","e"," ","c","h","a","r","a","c","t","e","r",":"," ","s","u","r","r","o","g","a","t","e","s"," ","n","o","t"," ","a","l","l","o","w","e","d">>)}

AiProbabilities ==
    {o.value.ai_probability : o \in {x \in DetectOutcomes : x.kind = "returned" /\ ~x.value.fallback_mode}}

\* distances from an AI probability around the two consensus thresholds
ThresholdOffsets == {0 - 3001, 0 - 3000, 0 - 1501, 0 - 1500, 1500, 1501, 3000, 3001}

RuleProbabilities ==
    {(i * 10000) \div MaxRuleGrid : i \in 0..MaxRuleGrid}
    \cup {p \in {a + d : a \in AiProbabilities, d \in ThresholdOffsets} : p >= 0 /\ p <= 10000}

\* probabilities of the rule-based analyzer before rounding, in millionths of a
\* point: the values above, values that round up onto a threshold of
\* _get_confidence_level, and values whose roundings meet a decimal tie
\* (33.355 at two places; 33.35 in the weighted sum; 71.65 in 100 - p at one)
UnroundedProbabilities ==
    {p * 10000 : p \in RuleProbabilities}
    \cup {t * 10000 - 4000 : t \in {2000, 4000, 6000, 8000}}
    \cup {33355000, 33350000, 71650000}

\* which way each rounding of comprehensive_analysis goes at a decimal tie:
\* round(ai_probability, 2) in analyze_text, round(ensemble_probability, 2),
\* round(trust_score, 1) in calculate_mvp1_score and round(enhanced_score, 1)
Roundings == [rule : BOOLEAN, ensemble : BOOLEAN, base : BOOLEAN, enhanced : BOOLEAN]

\* confidence_map, in the order the dict is iterated
ConfidenceMap == <<
    [key |-> <<"v","e","r","y"," ","h","i","g","h">>, value |-> 95],
    [key |-> <<"h","i","g","h">>, value |-> 85],
    [key |-> <<"m","e","d","i","u","m","-","h","i","g","h">>, value |-> 75],
    [key |-> <<"m","e","d","i","u","m">>, value |-> 65],
    [key |-> <<"l","o","w","-","m","e","d","i","u","m">>, value |-> 50],
    [key |-> <<"l","o","w">>, value |-> 40],
    [key |-> <<"v","e","r","y"," ","l","o","w">>, value |-> 20] >>

\* _extract_confidence_score: the first key found in the lowered text
ExtractConfidenceScore(confidence_text) ==
    LET t == Lower(confidence_text)
        hits == {i \in DOMAIN ConfidenceMap : Contains(t, ConfidenceMap[i].key)}
    IN  IF hits = {} THEN 50
        ELSE ConfidenceMap[CHOOSE i \in hits : \A j \in hits : i <= j].value

\* The side on which the float abs(ai_probability - rule_probability) falls of
\* the decimal difference of the two probabilities (-1 below, 0 on it, 1
\* above). Both operands are floats nearest to a number of hundredths:
\* multiples of 0.25 are held exactly and so is their difference; of other
\* operands the difference can miss the decimal one by a few units in the
\* last place (abs(16.01 - 1.01) is 15.000000000000002). The error is followed
\* where it decides a comparison, at a decimal difference of 15 or 30
FloatErrors(ai_probability, rule_probability) ==
    IF /\ Abs(ai_probability - rule_probability) \in {1500, 3000}
       /\ ~(ai_probability % 25 = 0 /\ rule_probability % 25 = 0)
    THEN {0 - 1, 0, 1}
    ELSE {0}

\* score_difference = abs(ai_probability - rule_probability): the decimal
\* difference in hundredths and the side of it the float falls on
ScoreDifference(ai_probability, rule_probability, error) ==
    [hundredths |-> Abs(ai_probability - rule_probability), error |-> error]

\* score_difference <= threshold
AtMost(score_difference, threshold) ==
    \/ score_difference.hundredths < threshold
    \/ score_difference.hundredths = threshold /\ score_difference.error <= 0

\* consensus_strength
ConsensusStrength(score_difference) ==
    IF AtMost(score_difference, 1500) THEN "Strong"
    ELSE IF AtMost(score_difference, 3000) THEN "Moderate"
    ELSE "Weak"

\* _create_ensemble_analysis; ensemble_agreement is round(score_difference, 2)
CreateEnsembleAnalysis(rule, ai, up, error) ==
    LET score_difference == ScoreDifference(ai.ai_probability, rule.ai_probability, error)
    IN  [final_ai_probability |->
             RoundDiv(ai.ai_probability * ai_weight + rule.ai_probability * rule_weight, 100, up),
         confidence_improvement |->
             Max(0, ExtractConfidenceScore(ai.confidence_level)
                    - ExtractConfidenceScore(rule.confidence_level)),
         method_consensus |-> ConsensusStrength(score_difference),
         ensemble_agreement |-> score_difference.hundredths]

\* _determine_overall_confidence
DetermineOverallConfidence(ar) ==
    IF ar.ai_enhanced
    THEN IF ar.confidence_boost >= 20 /\ (ar.ensemble_score >= 8000 \/ ar.ensemble_score <= 2000)
         THEN <<"V","e","r","y"," ","H","i","g","h"," ","C","o","n","f","i","d","e","n","c","e"," ","-"," ","A","I"," ","E","n","h","a","n","c","e","d">>
         ELSE IF ar.confidence_boost >= 15 /\ (ar.ensemble_score >= 7000 \/ ar.ensemble_score <= 3000)
         THEN <<"H","i","g","h"," ","C","o","n","f","i","d","e","n","c","e"," ","-"," ","A","I"," ","E","n","h","a","n","c","e","d">>
         ELSE IF ar.confidence_boost >= 10 THEN <<"M","e","d","i","u","m","-","H","i","g","h"," ","C","o","n","f","i","d","e","n","c","e"," ","-"," ","A","I"," ","E","n","h","a","n","c","e","d">>
         ELSE <<"M","e","d","i","u","m"," ","C","o","n","f","i","d","e","n","c","e"," ","-"," ","A","I"," ","E","n","h","a","n","c","e","d">>
    ELSE IF ar.ensemble_score >= 8000 \/ ar.ensemble_score <= 2000
         THEN <<"H","i","g","h"," ","C","o","n","f","i","d","e","n","c","e"," ","-"," ","R","u","l","e","-","b","a","s","e","d">>
         ELSE IF ar.ensemble_score >= 7000 \/ ar.ensemble_score <= 3000
         THEN <<"M","e","d","i","u","m"," ","C","o","n","f","i","d","e","n","c","e"," ","-"," ","R","u","l","e","-","b","a","s","e","d">>
         ELSE <<"L","o","w"," ","C","o","n","f","i","d","e","n","c","e"," ","-"," ","R","u","l","e","-","b","a","s","e","d"," ","(","R","e","c","o","m","m","e","n","d"," ","A","I"," ","r","e","t","r","y",")">>

\* _get_enhanced_trust_level
GetEnhancedTrustLevel(score) ==
    IF score >= 9000 THEN "Exceptional Trust - AI Verified Authentic"
    ELSE IF score >= 8000 THEN "Very High Trust - AI Enhanced Verification"
    ELSE IF score >= 7000 THEN "High Trust - AI Assisted Analysis"
    ELSE IF score >= 6000 THEN "Moderate Trust - AI Enhanced Assessment"
    ELSE IF score >= 4000 THEN "Low Trust - AI Detected Concerns"
    ELSE "Very Low Trust - AI Flagged High Risk"

\* _calculate_enhanced_trust_score
CalculateEnhancedTrustScore(ar, ups) ==
    LET base_trust_score == CalculateMvp1Score(ar.ensemble_score, ups.base)
        confidence_boost == ar.confidence_boost
        bonus == IF confidence_boost >= 15 THEN Min(500, 25 * confidence_boost)
                 ELSE IF confidence_boost >= 10 THEN Min(300, 20 * confidence_boost)
                 ELSE 0
        enhanced_score == base_trust_score.overall_trust_score + bonus
    IN  IF ar.ai_enhanced
        THEN [overall_trust_score |-> Round1(enhanced_score, ups.enhanced),
              trust_level |-> GetEnhancedTrustLevel(enhanced_score),
              ai_enhancement_applied |-> TRUE,
              confidence_boost |-> confidence_boost]
        ELSE base_trust_score

\* ai_analysis.get('fallback_mode', default): only the fallback results of the
\* client carry the key, and there it is True
GetFallbackMode(ai_analysis, default) ==
    IF ai_analysis.fallback_mode THEN TRUE ELSE default

\* Mutant of AiAnalysisSuccessful: the fallback_mode test is dropped
AiAnalysisSuccessfulAlways(ai) == TRUE

\* `if not ai_results.get("fallback_mode", False)`
AiAnalysisSuccessful(ai) == ~GetFallbackMode(ai, FALSE)

\* analysis_result as comprehensive_analysis initializes it; <<>> stands for None
InitialAnalysisResult(rule) ==
    [analysis_method |-> "rule_based_only",
     ai_enhanced |-> FALSE,
     ai_analysis |-> Pending,
     ensemble_score |-> rule.ai_probability,
     confidence_boost |-> 0,
     method_consensus |-> "",
     ensemble_agreement |-> 0,
     ai_analysis_attempted |-> FALSE,
     ai_analysis_successful |-> FALSE,
     fallback_reason |-> <<>>,
     ai_error |-> <<>>,
     confidence_level |-> <<>>]

NoAnalysisResult == InitialAnalysisResult(NoRuleResults)

\* content_analysis of a request that made none
NoContentAnalysis ==
    [present |-> FALSE, ai_analysis |-> Pending, scored |-> FALSE,
     overall_content_score |-> 0, error |-> <<>>]

\* a request that is not inside an entry point; job_content is the posting
\* _analyze_job_content holds while it awaits, error the message of what was raised
NoAnalysisCall == [pc |-> "none", job_content |-> <<>>, error |-> ""]

\* the message of an exception that analyze_text lets through to
\* comprehensive_analysis (it has no handler of its own)
RuleAnalysisErrors == {"float division by zero"}

\* analysis_result as comprehensive_analysis leaves it for rule_results rule,
\* detect_ai_generated_content having ended as o when it was attempted; error
\* is the side the float score difference falls on
CompletedAnalysisResult(rule, attempted, o, up, error) ==
    LET initial == InitialAnalysisResult(rule)
        result ==
            IF ~attempted
            THEN [initial EXCEPT !.fallback_reason =
                     IF ~ai_enabled THEN <<"A","I"," ","d","e","t","e","c","t","i","o","n"," ","d","i","s","a","b","l","e","d"," ","i","n"," ","c","o","n","f","i","g","u","r","a","t","i","o","n">>
                     ELSE <<"H","u","g","g","i","n","g"," ","F","a","c","e"," ","A","P","I"," ","k","e","y"," ","n","o","t"," ","c","o","n","f","i","g","u","r","e","d">>]
            ELSE IF o.kind = "raised"
            THEN [initial EXCEPT !.ai_analysis_attempted = TRUE,
                                 !.ai_error = o.value.error,
                                 !.fallback_reason = <<"E","x","c","e","p","t","i","o","n",":"," ">> \o o.value.error]
            ELSE IF AiAnalysisSuccessful(o.value)
            THEN LET ensemble_analysis == CreateEnsembleAnalysis(rule, o.value, up, error)
                 IN  [initial EXCEPT !.analysis_method = "ai_enhanced_ensemble",
                                     !.ai_enhanced = TRUE,
                                     !.ai_analysis = o.value,
                                     !.ensemble_score = ensemble_analysis.final_ai_probability,
                                     !.confidence_boost = ensemble_analysis.confidence_improvement,
                                     !.method_consensus = ensemble_analysis.method_consensus,
                                     !.ensemble_agreement = ensemble_analysis.ensemble_agreement,
                                     !.ai_analysis_attempted = TRUE,
                                     !.ai_analysis_successful = TRUE]
            ELSE [initial EXCEPT !.ai_analysis = o.value,
                                 !.ai_analysis_attempted = TRUE,
                                 !.fallback_reason = o.value.error]
    IN  [result EXCEPT !.confidence_level = DetermineOverallConfidence(result)]

\* comprehensive_analysis up to its await of the detector, for a text whose
\* rule-based ai_probability is x millionths of a point before rounding. When
\* the detector is not attempted the call runs to its return
ComprehensiveAnalysis(x, ups) ==
    /\ entry = "none"
    /\ entry' = "resume"
    /\ LET rule == AnalyzeText(x, ups.rule)
           attempted == ai_enabled /\ api_key
       IN  /\ rule_results' = rule
           /\ detector_invoked' = attempted
           /\ IF attempted
              THEN /\ analysis_result' =
                        [InitialAnalysisResult(rule) EXCEPT !.ai_analysis_attempted = TRUE]
                   /\ trust_score' = NoTrustScore
                   /\ analysis_call' = [NoAnalysisCall EXCEPT !.pc = "awaiting"]
              ELSE LET result == CompletedAnalysisResult(rule, FALSE, NoReturn, ups.ensemble, 0)
                   IN  /\ analysis_result' = result
                       /\ trust_score' = CalculateEnhancedTrustScore(result, ups)
                       /\ analysis_call' = [NoAnalysisCall EXCEPT !.pc = "returned"]
    /\ ai_results' = NoReturn
    /\ content_analysis' = NoContentAnalysis
    /\ UNCHANGED <<ai_enabled, api_key, ai_weight, rule_weight, clientVars, scoreVars,
                   jobVars, ruleVars, webVars, verifierVars>>

\* comprehensive_analysis: analyze_text raises e, the outer handler raises
\* 'Analysis pipeline error: ...' and nothing is returned
ComprehensiveAnalysisRaises(e) ==
    /\ entry = "none"
    /\ entry' = "resume"
    /\ analysis_call' = [NoAnalysisCall EXCEPT !.pc = "raised",
                                               !.error = "Analysis pipeline error: " \o e]
    /\ UNCHANGED <<ai_enabled, api_key, ai_weight, rule_weight, detector_invoked, rule_results,
                   ai_results, analysis_result, trust_score, content_analysis, clientVars,
                   scoreVars, jobVars, ruleVars, webVars, verifierVars>>

\* comprehensive_analysis from the end of its await to its return:
\* detect_ai_generated_content has ended as o
ResumeComprehensiveAnalysis(o, ups) ==
    /\ entry = "resume"
    /\ analysis_call.pc = "awaiting"
    /\ ai_results' = o
    /\ \E error \in IF o.kind = "returned" /\ AiAnalysisSuccessful(o.value)
                     THEN FloatErrors(o.value.ai_probability, rule_results.ai_probability)
                     ELSE {0} :
           LET result == CompletedAnalysisResult(rule_results, TRUE, o, ups.ensemble, error)
           IN  /\ analysis_result' = result
               /\ trust_score' = CalculateEnhancedTrustScore(result, ups)
    /\ analysis_call' = [analysis_call EXCEPT !.pc = "returned"]
    /\ UNCHANGED <<ai_enabled, api_key, ai_weight, rule_weight, entry, detector_invoked,
                   rule_results, content_analysis, clientVars, scoreVars, jobVars, ruleVars,
                   webVars, verifierVars>>

-----------------------------------------------------------------------------
(* JobPostingAnalyzer: content analysis *)

\* What the extractor found in a posting: whether raw_text is non-empty, the
\* title (absent, vague, specific), the company name (absent, short, named),
\* the description (absent; brief: under 50 words; fifty: exactly 50 words;
\* long: over 50 words), the number of requirements, whether the location is missing or remote, and how many of the
\* keyword lists' entries occur in raw_text
JobPostings == {
    [has_text |-> FALSE, title |-> "absent", company |-> "absent", description |-> "absent",
     requirements |-> 0, location_vague |-> TRUE, unprofessional |-> 0, critical |-> 0,
     warning |-> 0, urgency |-> 0],
    [has_text |-> TRUE, title |-> "specific", company |-> "named", description |-> "long",
     requirements |-> 4, location_vague |-> FALSE, unprofessional |-> 0, critical |-> 0,
     warning |-> 0, urgency |-> 0],
    [has_text |-> TRUE, title |-> "specific", company |-> "named", description |-> "fifty",
     requirements |-> 4, location_vague |-> FALSE, unprofessional |-> 0, critical |-> 0,
     warning |-> 0, urgency |-> 0],
    [has_text |-> TRUE, title |-> "specific", company |-> "named", description |-> "brief",
     requirements |-> 1, location_vague |-> TRUE, unprofessional |-> 1, critical |-> 0,
     warning |-> 1, urgency |-> 1],
    [has_text |-> TRUE, title |-> "vague", company |-> "absent", description |-> "brief",
     requirements |-> 0, location_vague |-> TRUE, unprofessional |-> 3, critical |-> 4,
     warning |-> 3, urgency |-> 3] }

\* _assess_content_quality: overall_quality_score
AssessContentQuality(j) ==
    LET present_fields == (IF j.title # "absent" THEN 1 ELSE 0)
                          + (IF j.company # "absent" THEN 1 ELSE 0)
                          + (IF j.description # "absent" THEN 1 ELSE 0)
                          + (IF j.requirements > 0 THEN 1 ELSE 0)
        completeness_score == 25 * present_fields
        professionalism_score == Max(0, 100 - 5 * j.unprofessional)
        desc_clarity == IF j.description = "long" THEN 70 ELSE 30
        req_clarity == IF j.requirements > 2 THEN 70 ELSE 30
        clarity_score == (desc_clarity + req_clarity) \div 2
    IN  completeness_score * 40 + professionalism_score * 30 + clarity_score * 30

\* _calculate_vagueness_score
CalculateVaguenessScore(j) ==
    Min(100, (IF j.title = "absent" THEN 25 ELSE IF j.title = "vague" THEN 20 ELSE 0)
             + (IF j.company # "named" THEN 20 ELSE 0)
             + (IF j.description \in {"absent", "brief"} THEN 15 ELSE 0)
             + (IF j.requirements < 2 THEN 15 ELSE 0)
             + (IF j.location_vague THEN 10 ELSE 0))

\* JobPostingAnalyzer._calculate_content_score
AnalyzerContentScore(j, ai_analysis) ==
    LET base_score == AssessContentQuality(j)
        ai_penalty == IF ~GetFallbackMode(ai_analysis, TRUE) /\ ai_analysis.ai_probability > 7000
                      THEN 2000 ELSE 0
        flag_penalty == (j.critical * 15 + j.warning * 5) * 100
        pressure_penalty == IF j.urgency >= 3 THEN 1000 ELSE 0
        vagueness_penalty == CalculateVaguenessScore(j) * 20
    IN  Max(0, Min(10000, base_score - ai_penalty - flag_penalty - pressure_penalty
                           - vagueness_penalty))

\* what _analyze_job_content returns for the posting j when the detector ends as o
JobContentAnalysis(j, o) ==
    IF o.kind = "raised"
    THEN [NoContentAnalysis EXCEPT !.present = TRUE, !.error = o.value.error]
    ELSE [present |-> TRUE, ai_analysis |-> o.value, scored |-> TRUE,
          overall_content_score |-> AnalyzerContentScore(j, o.value),
          error |-> <<>>]

\* analyze_job_posting, phase 2: _analyze_job_content up to its await of the
\* detector; it is called only when raw_text is not empty
AnalyzeJobContent(j) ==
    /\ entry = "none"
    /\ entry' = "job"
    /\ detector_invoked' = j.has_text
    /\ analysis_call' = IF j.has_text
                        THEN [NoAnalysisCall EXCEPT !.pc = "awaiting", !.job_content = j]
                        ELSE [NoAnalysisCall EXCEPT !.pc = "returned"]
    /\ ai_results' = NoReturn
    /\ content_analysis' = NoContentAnalysis
    /\ rule_results' = NoRuleResults
    /\ analysis_result' = NoAnalysisResult
    /\ trust_score' = NoTrustScore
    /\ UNCHANGED <<ai_enabled, api_key, ai_weight, rule_weight, clientVars, scoreVars,
                   jobVars, ruleVars, webVars, verifierVars>>

\* _analyze_job_content from the end of its await to its return:
\* detect_ai_generated_content has ended as o
ResumeAnalyzeJobContent(o) ==
    /\ entry = "job"
    /\ analysis_call.pc = "awaiting"
    /\ ai_results' = o
    /\ content_analysis' = JobContentAnalysis(analysis_call.job_content, o)
    /\ analysis_call' = [analysis_call EXCEPT !.pc = "returned"]
    /\ UNCHANGED <<ai_enabled, api_key, ai_weight, rule_weight, entry, detector_invoked,
                   rule_results, analysis_result, trust_score, clientVars, scoreVars, jobVars,
                   ruleVars, webVars, verifierVars>>

\* the route handler returns the result of the request; what the analyzers
\* built for it is gone, their settings stay
ReturnResponse ==
    /\ entry # "none"
    /\ analysis_call.pc \in {"returned", "raised"}
    /\ entry' = "none"
    /\ analysis_call' = NoAnalysisCall
    /\ detector_invoked' = FALSE
    /\ rule_results' = NoRuleResults
    /\ ai_results' = NoReturn
    /\ analysis_result' = NoAnalysisResult
    /\ trust_score' = NoTrustScore
    /\ content_analysis' = NoContentAnalysis
    /\ UNCHANGED <<ai_enabled, api_key, ai_weight, rule_weight, clientVars, scoreVars,
                   jobVars, ruleVars, webVars, verifierVars>>

-----------------------------------------------------------------------------
(* Job pipeline: CompanyVerifier, WebIntelligenceEngine, JobTrustScoreCalculator *)

\* Sub-scores of the checks are in hundredths of a point; the scores the
\* orchestrators and the aggregator compute from them are in ten-thousandths of
\* a point (100 points is 1000000), so that (sub_score / 100) * weight is exact;
\* the aggregator's weighted sum is in millionths of a point.

\* the largest number of flags of one kind given to the aggregator
MaxFlags == 6

FlagCounts == {0, 1, MaxFlags}

\* str(e) of the exception a check raised: a message, or the empty string
\* (str(asyncio.TimeoutError()) is '')
RaisedErrors == {"connection reset by peer", ""}

\* `if not x.get('error')` is false: the dict of the check has a non-empty error
HasError(c) == c.error # ""

\* n entries of a list of flags
Entries(n, name) == [i \in 1..n |-> name]

\* [name] if the condition holds, else []
EntryIf(condition, name) == IF condition THEN <<name>> ELSE <<>>

\* One check of verify_company. failed: the check raised, or reported an error
\* internally. raised: the coroutine raised, gather returned the exception and
\* the dict is {'error': str(e)} alone: the other fields are then the defaults
\* with which the code reads the missing keys (is_suspicious, which is read with
\* two different defaults, is read through IsSuspicious).
DomainInfos ==
    {[failed |-> TRUE, raised |-> TRUE, error |-> e, note |-> FALSE, is_registered |-> FALSE, age_days |-> 0,
      is_suspicious |-> FALSE, registrar |-> FALSE] : e \in RaisedErrors}
    \cup {
    \* WHOIS lookup failed, the domain resolves
    [failed |-> TRUE, raised |-> FALSE, error |-> "whois lookup failed", note |-> FALSE, is_registered |-> TRUE,
     age_days |-> 0, is_suspicious |-> FALSE, registrar |-> FALSE],
    \* _create_empty_result: no domain was given
    [failed |-> FALSE, raised |-> FALSE, error |-> "", note |-> TRUE, is_registered |-> FALSE, age_days |-> 0,
     is_suspicious |-> FALSE, registrar |-> FALSE],
    [failed |-> FALSE, raised |-> FALSE, error |-> "", note |-> FALSE, is_registered |-> TRUE, age_days |-> 5,
     is_suspicious |-> TRUE, registrar |-> TRUE],
    [failed |-> FALSE, raised |-> FALSE, error |-> "", note |-> FALSE, is_registered |-> TRUE, age_days |-> 200,
     is_suspicious |-> FALSE, registrar |-> TRUE],
    [failed |-> FALSE, raised |-> FALSE, error |-> "", note |-> FALSE, is_registered |-> TRUE, age_days |-> 400,
     is_suspicious |-> FALSE, registrar |-> TRUE],
    [failed |-> FALSE, raised |-> FALSE, error |-> "", note |-> FALSE, is_registered |-> TRUE, age_days |-> 2000,
     is_suspicious |-> FALSE, registrar |-> TRUE] }

\* Mutant of IsSuspicious: the age of the domain is never looked at
IsSuspiciousNever(domain_analysis, default) == FALSE

\* domain_analysis.get('is_suspicious', default)
IsSuspicious(domain_analysis, default) ==
    IF domain_analysis.raised THEN default ELSE domain_analysis.is_suspicious

\* reputation_score of _check_domain_reputation for an accessible page
ReputationScore(ssl_certificate, suspicious_redirects, security_headers) ==
    Min(10000, Max(0, 5000 + 2000 + (IF ssl_certificate THEN 1500 ELSE 0)
                      + (IF suspicious_redirects THEN 0 ELSE 1000)
                      + security_headers * 125))

DomainReputations ==
    \* reputation_score is read with the default 50
    {[failed |-> TRUE, raised |-> TRUE, error |-> e, note |-> FALSE, reputation_score |-> 5000,
      ssl_certificate |-> FALSE, suspicious_redirects |-> FALSE] : e \in RaisedErrors}
    \cup {
    \* no URL could be fetched: security_headers is empty and the score divides by zero
    [failed |-> TRUE, raised |-> FALSE, error |-> "division by zero", note |-> FALSE, reputation_score |-> 5000,
     ssl_certificate |-> FALSE, suspicious_redirects |-> FALSE],
    \* _create_empty_result: no reputation_score key, read with the default 50
    [failed |-> FALSE, raised |-> FALSE, error |-> "", note |-> TRUE, reputation_score |-> 5000,
     ssl_certificate |-> FALSE, suspicious_redirects |-> FALSE],
    [failed |-> FALSE, raised |-> FALSE, error |-> "", note |-> FALSE,
     reputation_score |-> ReputationScore(FALSE, TRUE, 0),
     ssl_certificate |-> FALSE, suspicious_redirects |-> TRUE],
    [failed |-> FALSE, raised |-> FALSE, error |-> "", note |-> FALSE,
     reputation_score |-> ReputationScore(TRUE, FALSE, 3),
     ssl_certificate |-> TRUE, suspicious_redirects |-> FALSE],
    [failed |-> FALSE, raised |-> FALSE, error |-> "", note |-> FALSE,
     reputation_score |-> ReputationScore(TRUE, FALSE, 4),
     ssl_certificate |-> TRUE, suspicious_redirects |-> FALSE] }

\* _search_company_online: presence_factors is sum(presence_factors), the number
\* of the three likelihoods that hold, and social_media_presence_score is
\* presence_factors / 3 * 100; _estimate_search_results returns at most 270
OnlinePresences ==
    {[failed |-> TRUE, raised |-> TRUE, error |-> e, presence_factors |-> 0,
      search_results_estimated |-> 0, has_linkedin_likelihood |-> FALSE,
      suspicious_indicators |-> 0] : e \in RaisedErrors}
    \cup {
    [failed |-> FALSE, raised |-> FALSE, error |-> "", presence_factors |-> 0,
     search_results_estimated |-> 20, has_linkedin_likelihood |-> FALSE,
     suspicious_indicators |-> 3],
    [failed |-> FALSE, raised |-> FALSE, error |-> "", presence_factors |-> 2,
     search_results_estimated |-> 120, has_linkedin_likelihood |-> TRUE,
     suspicious_indicators |-> 0],
    [failed |-> FALSE, raised |-> FALSE, error |-> "", presence_factors |-> 3,
     search_results_estimated |-> 270, has_linkedin_likelihood |-> TRUE,
     suspicious_indicators |-> 0] }

\* _check_business_patterns: the numbers of scam patterns and of legitimacy
\* indicators found in the name; appears_generic is read with the default True
BusinessPatterns ==
    {[failed |-> TRUE, raised |-> TRUE, error |-> e, appears_generic |-> TRUE,
      common_scam_patterns |-> 0, legitimacy_indicators |-> 0,
      suspicious_type |-> FALSE] : e \in RaisedErrors}
    \cup {
    [failed |-> FALSE, raised |-> FALSE, error |-> "", appears_generic |-> FALSE,
     common_scam_patterns |-> 0, legitimacy_indicators |-> 0, suspicious_type |-> FALSE],
    [failed |-> FALSE, raised |-> FALSE, error |-> "", appears_generic |-> FALSE,
     common_scam_patterns |-> 1, legitimacy_indicators |-> 0, suspicious_type |-> TRUE],
    [failed |-> FALSE, raised |-> FALSE, error |-> "", appears_generic |-> FALSE,
     common_scam_patterns |-> 2, legitimacy_indicators |-> 0, suspicious_type |-> TRUE],
    [failed |-> FALSE, raised |-> FALSE, error |-> "", appears_generic |-> TRUE,
     common_scam_patterns |-> 1, legitimacy_indicators |-> 0, suspicious_type |-> TRUE],
    [failed |-> FALSE, raised |-> FALSE, error |-> "", appears_generic |-> FALSE,
     common_scam_patterns |-> 0, legitimacy_indicators |-> 1, suspicious_type |-> FALSE],
    [failed |-> FALSE, raised |-> FALSE, error |-> "", appears_generic |-> FALSE,
     common_scam_patterns |-> 0, legitimacy_indicators |-> 3, suspicious_type |-> FALSE] }

\* _analyze_company_name_quality: of the empty name, of a blank name (31.0,
\* three issues), of "Global Services Group" (72.75, one issue), of "Acme.co"
\* (977/12 = 81.41666...) and of "Acme Robotics Inc" (97.75, the largest
\* quality there is). overall_quality is a sum of thirds and quarters of a
\* point and is held in 1/1200 of a point
NameQualities ==
    {[failed |-> TRUE, raised |-> TRUE, error |-> e, overall_quality |-> 0,
      quality_issues |-> 0] : e \in RaisedErrors}
    \cup {
    [failed |-> FALSE, raised |-> FALSE, error |-> "", overall_quality |-> 0,
     quality_issues |-> 0],
    [failed |-> FALSE, raised |-> FALSE, error |-> "", overall_quality |-> 37200,
     quality_issues |-> 3],
    [failed |-> FALSE, raised |-> FALSE, error |-> "", overall_quality |-> 87300,
     quality_issues |-> 1],
    [failed |-> FALSE, raised |-> FALSE, error |-> "", overall_quality |-> 97700,
     quality_issues |-> 0],
    [failed |-> FALSE, raised |-> FALSE, error |-> "", overall_quality |-> 117300,
     quality_issues |-> 0] }

\* the names of the five checks of verify_company, in the order of the batch
CompanyChecks ==
    <<"domain_analysis", "online_presence", "business_patterns", "name_quality",
      "domain_reputation">>

\* what each check of verify_company can end with
CompanyCheckOutcomes ==
    [domain_analysis |-> DomainInfos, online_presence |-> OnlinePresences,
     business_patterns |-> BusinessPatterns, name_quality |-> NameQualities,
     domain_reputation |-> DomainReputations]

VerificationDetails ==
    [domain_analysis : DomainInfos, online_presence : OnlinePresences,
     business_patterns : BusinessPatterns, name_quality : NameQualities,
     domain_reputation : DomainReputations]

\* the points of _calculate_legitimacy_score that come from one check
LegitimacyPart(vd, check) ==
    LET c == vd[check]
    IN  IF HasError(c) THEN 0
        ELSE CASE check = "domain_analysis" ->
                      (IF c.is_registered THEN 150000 ELSE 0)
                      + (IF c.age_days > 1095 THEN 150000
                         ELSE IF c.age_days > 365 THEN 100000
                         ELSE IF c.age_days > 90 THEN 50000 ELSE 0)
                      + (IF ~IsSuspicious(c, TRUE) THEN 50000 ELSE 0)
               [] check = "domain_reputation" -> c.reputation_score * 10
               [] check = "online_presence" ->
                      \* (presence_score / 100) * 15 of presence_factors / 3 * 100
                      (c.presence_factors * 150000) \div 3
                      + (IF c.search_results_estimated > 100 THEN 50000 ELSE 0)
                      + (IF c.search_results_estimated > 500 THEN 50000 ELSE 0)
               [] check = "business_patterns" ->
                      (IF ~c.appears_generic THEN 50000 ELSE 0)
                      + (IF c.common_scam_patterns = 0 THEN 50000 ELSE 0)
                      + (IF c.legitimacy_indicators > 0
                         THEN Min(c.legitimacy_indicators * 2, 5) * 10000 ELSE 0)
               \* (quality_score / 100) * 15
               [] check = "name_quality" -> (c.overall_quality * 5) \div 4

\* CompanyVerifier._calculate_legitimacy_score
CalculateLegitimacyScore(vd) ==
    Min(LegitimacyPart(vd, "domain_analysis") + LegitimacyPart(vd, "domain_reputation")
        + LegitimacyPart(vd, "online_presence") + LegitimacyPart(vd, "business_patterns")
        + LegitimacyPart(vd, "name_quality"), 1000000)

\* the red flags and the green flags that _analyze_flags takes from one check
CheckFlags(vd, check) ==
    LET c == vd[check]
    IN  IF HasError(c) THEN [red_flags |-> <<>>, green_flags |-> <<>>]
        ELSE CASE check = "domain_analysis" ->
                      [red_flags |-> EntryIf(IsSuspicious(c, FALSE), "very_new_domain"),
                       green_flags |->
                           (IF c.age_days > 1095 THEN <<"established_domain">>
                            ELSE IF c.age_days > 365 THEN <<"reasonable_age_domain">>
                            ELSE <<>>)
                           \o EntryIf(c.registrar, "registrar")]
               [] check = "domain_reputation" ->
                      [red_flags |-> EntryIf(~c.ssl_certificate, "no_ssl")
                                     \o EntryIf(c.suspicious_redirects, "suspicious_redirects"),
                       green_flags |-> EntryIf(c.ssl_certificate, "ssl")]
               [] check = "business_patterns" ->
                      [red_flags |-> EntryIf(c.common_scam_patterns > 0, "scam_keywords")
                                     \o EntryIf(c.suspicious_type, "suspicious_business_type"),
                       green_flags |-> EntryIf(c.legitimacy_indicators > 0,
                                               "professional_keywords")]
               [] check = "name_quality" ->
                      [red_flags |-> EntryIf(c.overall_quality < 36000, "unprofessional_name")
                                     \o Entries(Min(c.quality_issues, 2), "quality_issue"),
                       green_flags |-> EntryIf(c.overall_quality > 84000, "professional_name")]
               [] check = "online_presence" ->
                      [red_flags |-> Entries(Min(c.suspicious_indicators, 2),
                                             "suspicious_indicator"),
                       green_flags |-> EntryIf(c.has_linkedin_likelihood, "linkedin")]

\* CompanyVerifier._analyze_flags: the lists of red and of green flags
AnalyzeFlags(vd) ==
    [red_flags |->
         CheckFlags(vd, "domain_analysis").red_flags
         \o CheckFlags(vd, "domain_reputation").red_flags
         \o CheckFlags(vd, "business_patterns").red_flags
         \o CheckFlags(vd, "name_quality").red_flags
         \o CheckFlags(vd, "online_presence").red_flags,
     green_flags |->
         CheckFlags(vd, "domain_analysis").green_flags
         \o CheckFlags(vd, "domain_reputation").green_flags
         \o CheckFlags(vd, "business_patterns").green_flags
         \o CheckFlags(vd, "name_quality").green_flags
         \o CheckFlags(vd, "online_presence").green_flags]

\* 'verification_details': {} of a result whose checks were not processed
NoCheck == [failed |-> FALSE, raised |-> FALSE, error |-> "", not_run |-> TRUE]

NoVerificationDetails ==
    [domain_analysis |-> NoCheck, online_presence |-> NoCheck, business_patterns |-> NoCheck,
     name_quality |-> NoCheck, domain_reputation |-> NoCheck]

NoCompanyVerification ==
    [present |-> FALSE, has_score |-> FALSE, overall_legitimacy_score |-> 0,
     red_flags |-> <<>>, green_flags |-> <<>>, verification_details |-> NoVerificationDetails,
     error |-> ""]

\* what verify_company returns when its checks ended as vd
CompanyVerificationResult(vd) ==
    [present |-> TRUE, has_score |-> TRUE,
     overall_legitimacy_score |-> CalculateLegitimacyScore(vd),
     red_flags |-> AnalyzeFlags(vd).red_flags,
     green_flags |-> AnalyzeFlags(vd).green_flags,
     verification_details |-> vd,
     error |-> ""]

\* checks of analyze_web_presence, with the fields failed, raised and error of
\* the checks of verify_company
WebDomainAnalyses ==
    {[failed |-> TRUE, raised |-> TRUE, error |-> e, is_accessible |-> FALSE, has_ssl |-> FALSE,
      professional_design |-> FALSE, careers_page_exists |-> FALSE,
      suspicious_elements |-> 0] : e \in RaisedErrors}
    \cup {
    \* the request timed out: asyncio.TimeoutError, whose message is empty
    [failed |-> TRUE, raised |-> FALSE, error |-> "", is_accessible |-> FALSE, has_ssl |-> FALSE,
     professional_design |-> FALSE, careers_page_exists |-> FALSE, suspicious_elements |-> 0],
    \* the page answered 200 and its body could not be read
    [failed |-> TRUE, raised |-> FALSE, error |-> "connection reset by peer",
     is_accessible |-> TRUE, has_ssl |-> TRUE, professional_design |-> FALSE,
     careers_page_exists |-> FALSE, suspicious_elements |-> 0],
    \* _empty_domain_analysis: no domain was given
    [failed |-> FALSE, raised |-> FALSE, error |-> "", is_accessible |-> FALSE, has_ssl |-> FALSE,
     professional_design |-> FALSE, careers_page_exists |-> FALSE, suspicious_elements |-> 0],
    [failed |-> FALSE, raised |-> FALSE, error |-> "", is_accessible |-> TRUE, has_ssl |-> FALSE,
     professional_design |-> FALSE, careers_page_exists |-> FALSE, suspicious_elements |-> 2],
    [failed |-> FALSE, raised |-> FALSE, error |-> "", is_accessible |-> TRUE, has_ssl |-> TRUE,
     professional_design |-> TRUE, careers_page_exists |-> TRUE, suspicious_elements |-> 0] }

\* _search_social_media_presence: all three presences or none
SocialMediaPresences ==
    {[failed |-> TRUE, raised |-> TRUE, error |-> e, social_media_score |-> 0,
      estimated_linkedin_presence |-> FALSE] : e \in RaisedErrors}
    \cup {
    [failed |-> FALSE, raised |-> FALSE, error |-> "", social_media_score |-> 0,
     estimated_linkedin_presence |-> FALSE],
    [failed |-> FALSE, raised |-> FALSE, error |-> "", social_media_score |-> 10000,
     estimated_linkedin_presence |-> TRUE] }

\* _analyze_company_reviews: estimated_rating in hundredths
ReviewAnalyses ==
    {[failed |-> TRUE, raised |-> TRUE, error |-> e, review_availability |-> "unknown",
      estimated_rating |-> 0, warning_indicators |-> 0] : e \in RaisedErrors}
    \cup {
    [failed |-> FALSE, raised |-> FALSE, error |-> "", review_availability |-> "unlikely",
     estimated_rating |-> 75, warning_indicators |-> 1],
    [failed |-> FALSE, raised |-> FALSE, error |-> "",
     review_availability |-> "possibly_available", estimated_rating |-> 350,
     warning_indicators |-> 0],
    [failed |-> FALSE, raised |-> FALSE, error |-> "", review_availability |-> "likely_available",
     estimated_rating |-> 500, warning_indicators |-> 0] }

\* _check_job_board_presence: the score is a number of quarters of 100
JobBoardPresences ==
    {[failed |-> TRUE, raised |-> TRUE, error |-> e, likely_on_major_boards |-> FALSE,
      board_credibility_score |-> 0] : e \in RaisedErrors}
    \cup {
    [failed |-> FALSE, raised |-> FALSE, error |-> "", likely_on_major_boards |-> FALSE,
     board_credibility_score |-> 2500],
    [failed |-> FALSE, raised |-> FALSE, error |-> "", likely_on_major_boards |-> TRUE,
     board_credibility_score |-> 10000] }

\* _analyze_source_url
SourceUrlAnalyses ==
    {[failed |-> TRUE, raised |-> TRUE, error |-> e, is_legitimate_job_board |-> FALSE,
      domain_credibility |-> 0, credibility_factors |-> 0,
      warning_signs |-> 0] : e \in RaisedErrors}
    \cup {
    \* urlparse failed
    [failed |-> TRUE, raised |-> FALSE, error |-> "Invalid IPv6 URL",
     is_legitimate_job_board |-> FALSE, domain_credibility |-> 0, credibility_factors |-> 0,
     warning_signs |-> 0],
    \* _empty_url_analysis: no URL was given
    [failed |-> FALSE, raised |-> FALSE, error |-> "", is_legitimate_job_board |-> FALSE,
     domain_credibility |-> 0, credibility_factors |-> 0, warning_signs |-> 0],
    [failed |-> FALSE, raised |-> FALSE, error |-> "", is_legitimate_job_board |-> TRUE,
     domain_credibility |-> 9000, credibility_factors |-> 1, warning_signs |-> 0],
    [failed |-> FALSE, raised |-> FALSE, error |-> "", is_legitimate_job_board |-> FALSE,
     domain_credibility |-> 6000, credibility_factors |-> 1, warning_signs |-> 0],
    [failed |-> FALSE, raised |-> FALSE, error |-> "", is_legitimate_job_board |-> FALSE,
     domain_credibility |-> 1000, credibility_factors |-> 0, warning_signs |-> 2] }

\* the names of the five checks of analyze_web_presence, in the order of the batch
WebCheckNames ==
    <<"domain_analysis", "social_media_presence", "review_analysis", "job_board_presence",
      "source_url_analysis">>

\* what each check of analyze_web_presence can end with
WebCheckOutcomes ==
    [domain_analysis |-> WebDomainAnalyses, social_media_presence |-> SocialMediaPresences,
     review_analysis |-> ReviewAnalyses, job_board_presence |-> JobBoardPresences,
     source_url_analysis |-> SourceUrlAnalyses]

WebChecks ==
    [domain_analysis : WebDomainAnalyses, social_media_presence : SocialMediaPresences,
     review_analysis : ReviewAnalyses, job_board_presence : JobBoardPresences,
     source_url_analysis : SourceUrlAnalyses]

\* WebIntelligenceEngine._calculate_web_credibility
CalculateWebCredibility(wi) ==
    LET domain_analysis == wi.domain_analysis
        social_media == wi.social_media_presence
        review_analysis == wi.review_analysis
        job_board_presence == wi.job_board_presence
        source_url_analysis == wi.source_url_analysis
        domain_part ==
            IF HasError(domain_analysis) THEN 0
            ELSE (IF domain_analysis.is_accessible THEN 120000 ELSE 0)
                 + (IF domain_analysis.has_ssl THEN 80000 ELSE 0)
                 + (IF domain_analysis.professional_design THEN 100000 ELSE 0)
                 + (IF domain_analysis.careers_page_exists THEN 50000 ELSE 0)
        social_part ==
            IF HasError(social_media) THEN 0 ELSE social_media.social_media_score * 20
        review_part ==
            IF HasError(review_analysis) THEN 0
            ELSE (IF review_analysis.review_availability = "likely_available" THEN 150000
                  ELSE IF review_analysis.review_availability = "possibly_available" THEN 100000
                  ELSE 0)
                 + (IF review_analysis.estimated_rating > 350 THEN 50000 ELSE 0)
        board_part ==
            IF HasError(job_board_presence) THEN 0
            ELSE (IF job_board_presence.likely_on_major_boards THEN 100000 ELSE 0)
                 + job_board_presence.board_credibility_score * 5
        source_part ==
            IF HasError(source_url_analysis) THEN 0
            ELSE IF source_url_analysis.is_legitimate_job_board THEN 80000
            ELSE source_url_analysis.domain_credibility * 2
    IN  Min(domain_part + social_part + review_part + board_part + source_part, 1000000)

\* WebIntelligenceEngine._generate_web_insights: the numbers of credibility
\* factors and of warning signs; the error of a check is not looked at
GenerateWebInsights(wi) ==
    LET B(c) == IF c THEN 1 ELSE 0
    IN  [credibility_factors |->
             B(wi.domain_analysis.professional_design)
             + B(wi.domain_analysis.careers_page_exists)
             + B(wi.social_media_presence.estimated_linkedin_presence)
             + wi.source_url_analysis.credibility_factors,
         warning_signs |->
             B(wi.domain_analysis.suspicious_elements > 0)
             + wi.review_analysis.warning_indicators
             + wi.source_url_analysis.warning_signs]

NoWebChecks ==
    [domain_analysis |-> NoCheck, social_media_presence |-> NoCheck, review_analysis |-> NoCheck,
     job_board_presence |-> NoCheck, source_url_analysis |-> NoCheck]

NoWebIntelligence ==
    [present |-> FALSE, has_score |-> FALSE, overall_web_credibility |-> 0,
     credibility_factors |-> 0, warning_signs |-> 0, checks |-> NoWebChecks, error |-> ""]

\* what analyze_web_presence returns when its checks ended as wi
WebIntelligenceResult(wi) ==
    [present |-> TRUE, has_score |-> TRUE,
     overall_web_credibility |-> CalculateWebCredibility(wi),
     credibility_factors |-> GenerateWebInsights(wi).credibility_factors,
     warning_signs |-> GenerateWebInsights(wi).warning_signs,
     checks |-> wi,
     error |-> ""]

\* WEIGHT_DISTRIBUTION, in hundredths
WEIGHT_DISTRIBUTION ==
    [content_authenticity |-> 30, company_legitimacy |-> 25, web_intelligence |-> 20,
     posting_source |-> 15, red_flag_analysis |-> 10]

\* Mutant of Clamp: the score is returned as computed
ClampNot(score) == score

\* max(0, min(100, score))
Clamp(score) == Max(0, Min(1000000, score))

\* content_analysis dicts given to the aggregator: the empty dict, and dicts
\* with ai_probability (hundredths), the length of job_description, the numbers
\* of requirements and of red_flag_keywords, and salary_range (none, found,
\* suspicious); a key that is missing is given by its default
ContentAnalyses ==
    {[present |-> FALSE, malformed |-> FALSE, ai_probability |-> 0, description_length |-> 0,
      requirements |-> 0, red_flag_keywords |-> 0, salary |-> "none"]}
    \cup {[present |-> TRUE, malformed |-> FALSE, ai_probability |-> 0,
           description_length |-> 0, requirements |-> 0, red_flag_keywords |-> 0,
           salary |-> "none"],
          [present |-> TRUE, malformed |-> FALSE, ai_probability |-> 2999,
           description_length |-> 201, requirements |-> 3, red_flag_keywords |-> 0,
           salary |-> "found"],
          [present |-> TRUE, malformed |-> FALSE, ai_probability |-> 5000,
           description_length |-> 120, requirements |-> 1, red_flag_keywords |-> 1,
           salary |-> "none"],
          [present |-> TRUE, malformed |-> FALSE, ai_probability |-> 7001,
           description_length |-> 49, requirements |-> 0, red_flag_keywords |-> MaxFlags,
           salary |-> "suspicious"],
          \* 'ai_probability' is a string: the comparison with 30 raises TypeError
          [present |-> TRUE, malformed |-> TRUE, ai_probability |-> 0,
           description_length |-> 0, requirements |-> 0, red_flag_keywords |-> 0,
           salary |-> "none"]}

\* JobTrustScoreCalculator._calculate_content_score
CalculateContentScore(ca) ==
    IF ~ca.present THEN 500000
    ELSE Clamp(700000
               + (IF ca.ai_probability < 3000 THEN 200000
                  ELSE IF ca.ai_probability > 7000 THEN 0 - 250000 ELSE 0)
               + (IF ca.description_length > 200 THEN 100000
                  ELSE IF ca.description_length < 50 THEN 0 - 150000 ELSE 0)
               + (IF ca.requirements >= 3 THEN 50000
                  ELSE IF ca.requirements = 0 THEN 0 - 100000 ELSE 0)
               - Min(ca.red_flag_keywords * 5, 30) * 10000
               + (IF ca.salary = "suspicious" THEN 0 - 200000
                  ELSE IF ca.salary = "found" THEN 50000 ELSE 0))

\* company_verification dicts given to the aggregator: the empty dict, a dict
\* without overall_legitimacy_score, and what verify_company can return
CompanyVerifications ==
    {NoCompanyVerification}
    \cup {[NoCompanyVerification EXCEPT !.present = TRUE]}
    \cup {[NoCompanyVerification EXCEPT !.present = TRUE, !.has_score = TRUE,
                                        !.overall_legitimacy_score = s,
                                        !.red_flags = Entries(f[1], "flag"),
                                        !.green_flags = Entries(f[2], "flag")] :
              s \in {0, 1000000}, f \in {<<0, 0>>, <<MaxFlags, 0>>, <<0, MaxFlags>>}}

\* _calculate_company_score
CalculateCompanyScore(cv) ==
    IF ~cv.present THEN 400000
    ELSE Clamp((IF cv.has_score THEN cv.overall_legitimacy_score ELSE 500000)
               + Min(Len(cv.green_flags) * 3, 15) * 10000
               - Min(Len(cv.red_flags) * 5, 25) * 10000)

\* web_intelligence dicts given to the aggregator
WebIntelligences ==
    {NoWebIntelligence}
    \cup {[NoWebIntelligence EXCEPT !.present = TRUE]}
    \cup {[NoWebIntelligence EXCEPT !.present = TRUE, !.has_score = TRUE,
                                    !.overall_web_credibility = s,
                                    !.credibility_factors = f[1],
                                    !.warning_signs = f[2]] :
              s \in {0, 980000}, f \in {<<0, 0>>, <<MaxFlags, 0>>, <<0, MaxFlags>>}}

\* _calculate_web_score
CalculateWebScore(wi) ==
    IF ~wi.present THEN 450000
    ELSE Clamp((IF wi.has_score THEN wi.overall_web_credibility ELSE 500000)
               + Min(wi.credibility_factors * 2, 10) * 10000
               - Min(wi.warning_signs * 4, 20) * 10000)

\* source_analysis dicts given to the aggregator; domain_credibility in hundredths
SourceAnalyses ==
    {[present |-> FALSE, extraction_method |-> "", domain_credibility |-> 0,
      is_legitimate_job_board |-> FALSE]}
    \cup [present : {TRUE}, extraction_method : {"web_scraping"},
          domain_credibility : {0, 1000, 6000}, is_legitimate_job_board : {FALSE}]
    \cup {[present |-> TRUE, extraction_method |-> "web_scraping", domain_credibility |-> 9000,
           is_legitimate_job_board |-> TRUE],
          [present |-> TRUE, extraction_method |-> "pdf_text", domain_credibility |-> 0,
           is_legitimate_job_board |-> FALSE],
          [present |-> TRUE, extraction_method |-> "unknown", domain_credibility |-> 0,
           is_legitimate_job_board |-> FALSE]}

\* _calculate_source_score
CalculateSourceScore(sa) ==
    IF ~sa.present THEN 500000
    ELSE Clamp(IF sa.extraction_method = "web_scraping"
               THEN IF sa.is_legitimate_job_board THEN 900000 ELSE sa.domain_credibility * 100
               ELSE IF sa.extraction_method \in {"pdf_text", "ocr_image"} THEN 600000
               ELSE 500000)

\* red_flag_analysis dicts given to the aggregator: the numbers of flags
RedFlagAnalyses ==
    {[present |-> FALSE, malformed |-> FALSE, content_red_flags |-> 0, company_red_flags |-> 0,
      web_red_flags |-> 0, scam_pattern_matches |-> 0]}
    \cup {[present |-> TRUE, malformed |-> FALSE, content_red_flags |-> n,
           company_red_flags |-> n, web_red_flags |-> n,
           scam_pattern_matches |-> n] : n \in FlagCounts}
    \* 'content_red_flags' is None: len(None) raises TypeError
    \cup {[present |-> TRUE, malformed |-> TRUE, content_red_flags |-> 0,
           company_red_flags |-> 0, web_red_flags |-> 0, scam_pattern_matches |-> 0]}

\* _calculate_red_flag_score
CalculateRedFlagScore(ra) ==
    IF ~ra.present THEN 700000
    ELSE Clamp(1000000
               - Min(ra.content_red_flags * 8, 40) * 10000
               - Min(ra.company_red_flags * 10, 40) * 10000
               - Min(ra.web_red_flags * 6, 30) * 10000
               - Min(ra.scam_pattern_matches * 15, 60) * 10000)

\* Mutant of DetermineTrustLevel: the thresholds are tested from the lowest up
DetermineTrustLevelLowestFirst(overall_score) ==
    IF overall_score >= 35000000 THEN "Low Trust - Exercise Significant Caution"
    ELSE IF overall_score >= 55000000 THEN "Moderate Trust - Proceed with Caution"
    ELSE IF overall_score >= 70000000 THEN "High Trust - Likely Legitimate"
    ELSE IF overall_score >= 85000000 THEN "Very High Trust - Highly Likely Legitimate"
    ELSE "Very Low Trust - High Risk of Scam"

\* _determine_trust_level, of a score in millionths of a point
DetermineTrustLevel(overall_score) ==
    IF overall_score >= 85000000 THEN "Very High Trust - Highly Likely Legitimate"
    ELSE IF overall_score >= 70000000 THEN "High Trust - Likely Legitimate"
    ELSE IF overall_score >= 55000000 THEN "Moderate Trust - Proceed with Caution"
    ELSE IF overall_score >= 35000000 THEN "Low Trust - Exercise Significant Caution"
    ELSE "Very Low Trust - High Risk of Scam"

\* the names of the components of WEIGHT_DISTRIBUTION
ComponentNames ==
    {"content_authenticity", "company_legitimacy", "web_intelligence", "posting_source",
     "red_flag_analysis"}

\* analysis_components before a call of the aggregator
NoAnalysisComponents ==
    [given |-> FALSE, content_analysis |-> CHOOSE ca \in ContentAnalyses : ~ca.present,
     company_verification |-> NoCompanyVerification, web_intelligence |-> NoWebIntelligence,
     source_analysis |-> CHOOSE sa \in SourceAnalyses : ~sa.present,
     red_flag_analysis |-> CHOOSE ra \in RedFlagAnalyses : ~ra.present]

\* component_breakdown of a verdict that has none: {}
NoBreakdown == [component \in {} |-> 0]

NoJobTrustScore ==
    [present |-> FALSE, outcome |-> "none", content_authenticity |-> 0, company_legitimacy |-> 0,
     web_intelligence |-> 0, posting_source |-> 0, red_flag_analysis |-> 0,
     overall_score |-> 0, overall_trust_score |-> 0, trust_level |-> "",
     component_breakdown |-> NoBreakdown, recommendations |-> <<>>, next_steps |-> <<>>,
     error |-> ""]

\* _generate_recommendations: the list, each text named by its tier
GenerateRecommendations(overall_score, ac) ==
    (IF overall_score >= 75000000 THEN Entries(4, "legitimate")
     ELSE IF overall_score >= 55000000 THEN Entries(5, "moderate caution")
     ELSE IF overall_score >= 35000000 THEN Entries(6, "high caution")
     ELSE Entries(5, "avoid"))
    \o EntryIf(ac.content_analysis.red_flag_keywords > 0, "suspicious keywords")
    \o EntryIf(ac.company_verification.red_flags # <<>>, "company verification raised concerns")

\* _generate_next_steps: the list, each text named by its tier
GenerateNextSteps(overall_score) ==
    IF overall_score >= 70000000 THEN Entries(4, "apply")
    ELSE IF overall_score >= 50000000 THEN Entries(5, "verify first")
    ELSE Entries(5, "do not apply")

\* _create_fallback_score
CreateFallbackScore(error_message) ==
    [NoJobTrustScore EXCEPT !.present = TRUE, !.outcome = "returned",
                            !.overall_trust_score = 0,
                            !.trust_level = "Analysis Failed",
                            !.component_breakdown = NoBreakdown,
                            !.recommendations = Entries(3, "calculation failed"),
                            !.next_steps = Entries(3, "research manually"),
                            !.error = error_message]

\* Mutant of CatchAggregationFailure: the exception leaves calculate_job_trust_score
PropagateAggregationFailure(error_message) ==
    [NoJobTrustScore EXCEPT !.present = TRUE, !.outcome = "raised", !.error = error_message]

\* except Exception as e: return self._create_fallback_score(str(e))
CatchAggregationFailure(error_message) == CreateFallbackScore(error_message)

\* component_scores of calculate_job_trust_score
ComponentScores(ac) ==
    [content_authenticity |-> CalculateContentScore(ac.content_analysis),
     company_legitimacy |-> CalculateCompanyScore(ac.company_verification),
     web_intelligence |-> CalculateWebScore(ac.web_intelligence),
     posting_source |-> CalculateSourceScore(ac.source_analysis),
     red_flag_analysis |-> CalculateRedFlagScore(ac.red_flag_analysis)]

\* overall_score = sum(score * self.WEIGHT_DISTRIBUTION[component] ...)
OverallScore(component_scores) ==
    component_scores.content_authenticity * WEIGHT_DISTRIBUTION.content_authenticity
    + component_scores.company_legitimacy * WEIGHT_DISTRIBUTION.company_legitimacy
    + component_scores.web_intelligence * WEIGHT_DISTRIBUTION.web_intelligence
    + component_scores.posting_source * WEIGHT_DISTRIBUTION.posting_source
    + component_scores.red_flag_analysis * WEIGHT_DISTRIBUTION.red_flag_analysis

\* which way the roundings of calculate_job_trust_score go: one choice for
\* round(overall_score, 1), round(score, 1) and round(score * weight, 1) of each
\* component, open only where the value is a decimal tie
TrustScoreRoundings(ac) ==
    LET component_scores == ComponentScores(ac)
    IN  [overall : IF IsTie(OverallScore(component_scores), 100000) THEN BOOLEAN ELSE {FALSE},
         score : {f \in [ComponentNames -> BOOLEAN] :
                     \A c \in ComponentNames : f[c] => IsTie(component_scores[c], 1000)},
         contribution : {f \in [ComponentNames -> BOOLEAN] :
                            \A c \in ComponentNames :
                                f[c] => IsTie(component_scores[c] * WEIGHT_DISTRIBUTION[c], 100000)}]

\* the verdict of calculate_job_trust_score for well-formed components
TrustScoreResult(ac, ups) ==
    LET component_scores == ComponentScores(ac)
        overall_score == OverallScore(component_scores)
    IN  [present |-> TRUE, outcome |-> "returned",
         content_authenticity |-> component_scores.content_authenticity,
         company_legitimacy |-> component_scores.company_legitimacy,
         web_intelligence |-> component_scores.web_intelligence,
         posting_source |-> component_scores.posting_source,
         red_flag_analysis |-> component_scores.red_flag_analysis,
         overall_score |-> overall_score,
         overall_trust_score |-> RoundDiv(overall_score, 100000, ups.overall),
         trust_level |-> DetermineTrustLevel(overall_score),
         \* score and contribution rounded to one decimal, in tenths of a point
         component_breakdown |->
             [component \in ComponentNames |->
                 [score |-> RoundDiv(component_scores[component], 1000, ups.score[component]),
                  weight |-> WEIGHT_DISTRIBUTION[component],
                  contribution |-> RoundDiv(component_scores[component]
                                            * WEIGHT_DISTRIBUTION[component], 100000,
                                            ups.contribution[component])]],
         recommendations |-> GenerateRecommendations(overall_score, ac),
         next_steps |-> GenerateNextSteps(overall_score),
         error |-> ""]

\* calculate_job_trust_score; overall_trust_score is round(overall_score, 1),
\* in tenths of a point. A component of an unexpected type makes its score
\* function raise TypeError, which the except clause turns into the fallback.
CalculateJobTrustScore(ca, cv, wi, sa, ra) ==
    /\ score_op = "none"
    /\ score_op' = "score"
    /\ LET ac == [given |-> TRUE, content_analysis |-> ca, company_verification |-> cv,
                  web_intelligence |-> wi, source_analysis |-> sa, red_flag_analysis |-> ra]
       IN  /\ analysis_components' = ac
           /\ IF ca.malformed
              THEN job_trust_score' = CatchAggregationFailure(
                       "'<' not supported between instances of 'str' and 'int'")
              ELSE IF ra.malformed
              THEN job_trust_score' =
                       CatchAggregationFailure("object of type 'NoneType' has no len()")
              ELSE \E ups \in TrustScoreRoundings(ac) :
                       job_trust_score' = TrustScoreResult(ac, ups)
    /\ company_verification' = cv
    /\ web_intelligence' = wi
    /\ UNCHANGED <<gather, clientVars, analysisVars, jobVars, ruleVars, webVars, verifierVars>>

\* two requests call analyze_web_presence of the one engine of the process
Requests == {1, 2}

\* a request that has not called analyze_web_presence: via is the session its
\* request in flight was sent through (0: none in flight), error holds the
\* message of domain_analysis['error'] when the key is set
NoWebRequest ==
    [pc |-> "idle", company_domain |-> FALSE, path |-> 0, probes |-> 0, via |-> 0,
     foreign_session |-> FALSE, closed_session |-> FALSE, is_accessible |-> FALSE,
     careers_page_exists |-> FALSE, error |-> <<>>]

\* the engine after __init__: self.session is None (0), no session is open
NoEngine ==
    [session |-> 0, open |-> [r \in Requests |-> FALSE], req |-> [r \in Requests |-> NoWebRequest]]

\* the request that calls analyze_web_presence where one call is followed
Caller == CHOOSE r \in Requests : \A q \in Requests : r <= q

\* `async with aiohttp.ClientSession(...) as session: self.session = session`
\* of request r, which then awaits gather
OpenedSession(r) ==
    [engine EXCEPT !.session = r, !.open[r] = TRUE,
                   !.req[r] = [NoWebRequest EXCEPT !.pc = "gathering"]]

\* request r leaves the `async with`, which closes its session; self.session
\* keeps naming the session it named
ClosedSession(r) == [engine EXCEPT !.open[r] = FALSE, !.req[r].pc = "done"]

\* the requests have returned; the engine and its self.session stay
RequestsReturned == [engine EXCEPT !.req = [r \in Requests |-> NoWebRequest]]

\* verify_company up to its await of gather: verification_results is
\* initialised and the five checks are created
VerifyCompany ==
    /\ score_op = "none"
    /\ score_op' = "company_gathering"
    /\ UNCHANGED <<company_verification, web_intelligence, job_trust_score,
                   analysis_components, gather, clientVars, analysisVars, jobVars, ruleVars,
                   webVars, verifierVars>>

\* verify_company from the return of gather, the five checks having ended as
\* vd, to its return
ResumeVerifyCompany(vd) ==
    /\ score_op = "company_gathering"
    /\ score_op' = "company"
    /\ company_verification' = CompanyVerificationResult(vd)
    /\ UNCHANGED <<web_intelligence, job_trust_score, analysis_components, gather,
                   clientVars, analysisVars, jobVars, ruleVars, webVars, verifierVars>>

\* analyze_web_presence up to its await of gather: the session is opened and
\* self.session names it
AnalyzeWebPresence ==
    /\ score_op = "none"
    /\ score_op' = "web_gathering"
    /\ engine' = OpenedSession(Caller)
    /\ UNCHANGED <<company_verification, web_intelligence, job_trust_score,
                   analysis_components, gather, clientVars, analysisVars, jobVars, ruleVars,
                   verifierVars>>

\* analyze_web_presence from the return of gather, the five checks having
\* ended as wi, to its return: the session is closed
ResumeAnalyzeWebPresence(wi) ==
    /\ score_op = "web_gathering"
    /\ score_op' = "web"
    /\ web_intelligence' = WebIntelligenceResult(wi)
    /\ engine' = ClosedSession(Caller)
    /\ UNCHANGED <<company_verification, job_trust_score, analysis_components, gather,
                   clientVars, analysisVars, jobVars, ruleVars, verifierVars>>

\* The steps of verify_company and of analyze_web_presence: the five checks are
\* given to asyncio.gather as one batch, each settles at its own time, and the
\* results are processed when gather returns.

\* the checks of an orchestrator, in the order of the batch
CheckNames(orchestrator) == IF orchestrator = "company" THEN CompanyChecks ELSE WebCheckNames

\* what each check of an orchestrator can end with
CheckOutcomes(orchestrator) ==
    IF orchestrator = "company" THEN CompanyCheckOutcomes ELSE WebCheckOutcomes

\* no batch is running
NoGather ==
    [orchestrator |-> "none", pc |-> "idle", pending |-> {}, results |-> NoVerificationDetails]

\* Mutant of GatherRaises: gather without return_exceptions raises the first
\* exception of a check while other checks are still running
GatherRaisesFirstException(g) ==
    \E name \in DOMAIN g.results : name \notin g.pending /\ g.results[name].raised

\* asyncio.gather(*tasks, return_exceptions=True) returns the exceptions of
\* the checks as results and raises none of them
GatherRaises(g) == FALSE

\* await asyncio.gather(...) is over
GatherDone(g) == g.pending = {} \/ GatherRaises(g)

\* the orchestrator creates the five coroutines and awaits gather;
\* analyze_web_presence has opened its session for them
StartChecks(orchestrator) ==
    /\ score_op = "none"
    /\ gather.pc = "idle"
    /\ gather' = [orchestrator |-> orchestrator, pc |-> "gathering",
                  pending |-> {CheckNames(orchestrator)[i] : i \in 1..5},
                  results |-> IF orchestrator = "company" THEN NoVerificationDetails
                              ELSE NoWebChecks]
    /\ engine' = IF orchestrator = "web" THEN OpenedSession(Caller) ELSE engine
    /\ UNCHANGED <<score_op, company_verification, web_intelligence, job_trust_score,
                   analysis_components, clientVars, analysisVars, jobVars, ruleVars, verifierVars>>

\* one check of the batch settles: it returns its dict, or raises and gather
\* keeps the exception, which the orchestrator turns into {'error': str(e)}
SettleCheck(name, result) ==
    /\ gather.pc = "gathering"
    /\ ~GatherDone(gather)
    /\ name \in gather.pending
    /\ gather' = [gather EXCEPT !.pending = @ \ {name}, !.results[name] = result]
    /\ UNCHANGED <<score_op, company_verification, web_intelligence, job_trust_score,
                   analysis_components, clientVars, analysisVars, jobVars, ruleVars, webVars,
                   verifierVars>>

\* verify_company when gather raised: except Exception sets error and the score 0.0
CompanyVerificationFailed ==
    [NoCompanyVerification EXCEPT !.present = TRUE, !.has_score = TRUE,
                                  !.error = "connection reset by peer"]

\* analyze_web_presence when gather raised: except Exception sets error
WebIntelligenceFailed ==
    [NoWebIntelligence EXCEPT !.present = TRUE, !.has_score = TRUE,
                              !.error = "connection reset by peer"]

\* gather has returned: the orchestrator records the results, calculates the
\* score and derives the flags; analyze_web_presence leaves its session
ProcessResults ==
    /\ gather.pc = "gathering"
    /\ GatherDone(gather)
    /\ gather' = [gather EXCEPT !.pc = "done"]
    /\ score_op' = gather.orchestrator
    /\ IF gather.orchestrator = "company"
       THEN /\ company_verification' =
                  IF GatherRaises(gather) THEN CompanyVerificationFailed
                  ELSE CompanyVerificationResult(gather.results)
            /\ UNCHANGED web_intelligence
       ELSE /\ web_intelligence' =
                  IF GatherRaises(gather) THEN WebIntelligenceFailed
                  ELSE WebIntelligenceResult(gather.results)
            /\ UNCHANGED company_verification
    /\ engine' = IF gather.orchestrator = "web" THEN ClosedSession(Caller) ELSE engine
    /\ UNCHANGED <<job_trust_score, analysis_components, clientVars, analysisVars, jobVars, ruleVars,
                   verifierVars>>

\* the result is returned to the caller
ReturnJobResult ==
    /\ score_op \in {"company", "web", "score"}
    /\ score_op' = "none"
    /\ company_verification' = NoCompanyVerification
    /\ web_intelligence' = NoWebIntelligence
    /\ job_trust_score' = NoJobTrustScore
    /\ analysis_components' = NoAnalysisComponents
    /\ gather' = NoGather
    /\ engine' = RequestsReturned
    /\ UNCHANGED <<clientVars, analysisVars, jobVars, ruleVars, verifierVars>>

-----------------------------------------------------------------------------
(* JobPostingAnalyzer.analyze_job_posting, phase by phase *)

\* input_type of a request; "docx" stands for any type the analyzer does not support
InputTypes == {"image", "pdf", "url", "docx"}

\* extraction_method that the extractor of an input type sets in job_content
ExtractionMethod(input_type) ==
    CASE input_type = "image" -> "ocr_image"
      [] input_type = "pdf" -> "pdf_text"
      [] input_type = "url" -> "web_scraping"

\* the three awaited phases between content extraction and the trust score
Phases == <<"content", "company", "web">>

\* the position that follows a phase
NextPosition(phase) ==
    CASE phase = "content" -> "company"
      [] phase = "company" -> "web"
      [] phase = "web" -> "score"

\* processing_details of a request that has just started
NoProcessingDetails ==
    [content_extraction_successful |-> FALSE, ai_analysis_successful |-> FALSE,
     company_verification_successful |-> FALSE, web_intelligence_successful |-> FALSE,
     trust_calculation_successful |-> FALSE]

\* the flag of processing_details that is set after a phase
PhaseFlag(phase) ==
    CASE phase = "content" -> "ai_analysis_successful"
      [] phase = "company" -> "company_verification_successful"
      [] phase = "web" -> "web_intelligence_successful"

\* no request is being analyzed
NoJob ==
    [pc |-> "idle", input_type |-> "", posting |-> CHOOSE j \in JobPostings : ~j.has_text,
     status |-> "", errors |-> <<>>, processing_details |-> NoProcessingDetails,
     phase |-> [p \in {"content", "company", "web"} |-> "pending"]]

\* _empty_url_analysis: the result of the source URL check when no URL was given
EmptyUrlAnalysis ==
    [failed |-> FALSE, raised |-> FALSE, error |-> "", is_legitimate_job_board |-> FALSE,
     domain_credibility |-> 0, credibility_factors |-> 0, warning_signs |-> 0]

\* how detect_ai_generated_content ends for the postings of this model: every
\* fallback and raise, and the valid results with the lowest and highest probability
JobDetectOutcomes ==
    {o \in DetectOutcomes :
        \/ o.kind = "raised"
        \/ o.value.fallback_mode
        \/ \A p \in AiProbabilities : o.value.ai_probability <= p
        \/ \A p \in AiProbabilities : o.value.ai_probability >= p}

\* how the checks of verify_company end for the companies of this model: with
\* no domain or with a domain of 5 days, the name checks succeeding
JobVerificationDetails ==
    {vd \in VerificationDetails :
        /\ vd.domain_analysis.note = vd.domain_reputation.note
        /\ ~vd.domain_analysis.failed /\ vd.domain_analysis.age_days <= 5
        /\ ~vd.domain_reputation.failed
        /\ vd.domain_reputation.note \/ vd.domain_reputation.suspicious_redirects
        /\ ~vd.online_presence.failed /\ vd.online_presence.has_linkedin_likelihood
        /\ ~vd.business_patterns.failed
        /\ ~vd.name_quality.failed /\ vd.name_quality.quality_issues = 0}

\* how the checks of analyze_web_presence end in this model: the source URL
\* check with each of its outcomes, the four others succeeding without a domain
JobWebChecks ==
    {wi \in WebChecks :
        /\ ~wi.domain_analysis.failed /\ ~wi.domain_analysis.is_accessible
        /\ ~wi.social_media_presence.failed /\ wi.social_media_presence.estimated_linkedin_presence
        /\ ~wi.review_analysis.failed /\ wi.review_analysis.warning_indicators = 0
        /\ ~wi.job_board_presence.failed /\ wi.job_board_presence.likely_on_major_boards}

\* What _calculate_content_score of the aggregator reads in the content_analysis
\* of the analyzer. Its keys are ai_analysis, pattern_analysis,
\* quality_assessment, red_flag_detection and overall_content_score: the keys
\* ai_probability, job_description, requirements, red_flag_keywords and
\* salary_range that the aggregator reads are absent and take their defaults.
AggregatorView(ca) ==
    [present |-> ca.present, malformed |-> FALSE, ai_probability |-> 0,
     description_length |-> 0, requirements |-> 0, red_flag_keywords |-> 0, salary |-> "none"]

\* 'source_analysis' of phase 5
JobSourceAnalysis(input_type, wi) ==
    [present |-> TRUE, extraction_method |-> ExtractionMethod(input_type),
     domain_credibility |-> IF wi.present THEN wi.checks.source_url_analysis.domain_credibility
                            ELSE 0,
     is_legitimate_job_board |->
         IF wi.present THEN wi.checks.source_url_analysis.is_legitimate_job_board ELSE FALSE]

\* _compile_red_flags: every keyword that _detect_job_red_flags found is in one
\* of the two lists and in one category
CompileRedFlags(j, ca, cv, wi) ==
    LET detected == IF ca.scored THEN j.critical + j.warning ELSE 0
    IN  [present |-> TRUE, malformed |-> FALSE, content_red_flags |-> detected,
         company_red_flags |-> Len(cv.red_flags), web_red_flags |-> wi.warning_signs,
         scam_pattern_matches |-> detected]

\* the phase is not run: no raw_text for the content analysis, no company_name
\* for the company verification
PhaseSkipped(phase, j) ==
    \/ phase = "content" /\ ~j.has_text
    \/ phase = "company" /\ j.company = "absent"

\* Mutant of Awaited: the phase is started as a task and the analyzer goes on
AwaitedOnceStarted(phase_state) == phase_state # "pending"

\* `await` of a phase: the analyzer goes on when the phase has returned
Awaited(phase_state) == phase_state = "settled"

\* analyze_job_posting is called
StartJobAnalysis(input_type, j) ==
    /\ job.pc = "idle"
    /\ job' = [NoJob EXCEPT !.pc = "extract", !.input_type = input_type, !.posting = j,
                            !.status = "in_progress"]
    /\ UNCHANGED <<score_op, company_verification, web_intelligence, job_trust_score,
                   analysis_components, gather, clientVars, analysisVars, ruleVars, webVars,
                   verifierVars>>

\* phase 1: _extract_job_content returns job_content, or raises for an input
\* type that is not supported or when the extractor raises; the except clause
\* of analyze_job_posting then ends the analysis
ExtractJobContent(extracted) ==
    /\ job.pc = "extract"
    /\ job' = IF job.input_type \in {"image", "pdf", "url"} /\ extracted
              THEN [job EXCEPT !.pc = "content",
                               !.processing_details.content_extraction_successful = TRUE]
              ELSE [job EXCEPT !.pc = "done", !.status = "failed",
                               !.errors = Append(@, "Failed to extract job content")]
    /\ UNCHANGED <<score_op, company_verification, web_intelligence, job_trust_score,
                   analysis_components, gather, clientVars, analysisVars, ruleVars, webVars,
                   verifierVars>>

\* phases 2 to 4: the analyzer reaches a phase and calls it, up to the first
\* await inside it, or skips it. _analyze_job_content calls
\* detect_ai_generated_content, analyze_web_presence opens its session
BeginPhase(phase) ==
    /\ job.pc = phase
    /\ job.phase[phase] = "pending"
    /\ job' = IF PhaseSkipped(phase, job.posting)
              THEN [job EXCEPT !.phase[phase] = "skipped", !.pc = NextPosition(phase)]
              ELSE [job EXCEPT !.phase[phase] = "running"]
    /\ detector_invoked' =
           (detector_invoked \/ (phase = "content" /\ ~PhaseSkipped(phase, job.posting)))
    /\ engine' = IF phase = "web" /\ ~PhaseSkipped(phase, job.posting)
                 THEN OpenedSession(Caller) ELSE engine
    /\ UNCHANGED <<score_op, company_verification, web_intelligence, job_trust_score,
                   analysis_components, gather, clientVars, ai_enabled, api_key, ai_weight,
                   rule_weight, entry, rule_results, ai_results, analysis_result, trust_score,
                   content_analysis, analysis_call, ruleVars, verifierVars>>

\* _analyze_job_content returns, the detector having ended as o
SettleContentAnalysis(o) ==
    /\ job.phase["content"] = "running"
    /\ job' = [job EXCEPT !.phase["content"] = "settled"]
    /\ ai_results' = o
    /\ content_analysis' = JobContentAnalysis(job.posting, o)
    /\ UNCHANGED <<ai_enabled, api_key, ai_weight, rule_weight, entry, detector_invoked,
                   rule_results, analysis_result, trust_score, analysis_call, clientVars,
                   score_op, company_verification, web_intelligence, job_trust_score,
                   analysis_components, gather, ruleVars, webVars, verifierVars>>

\* verify_company returns, its checks having ended as vd
SettleCompanyVerification(vd) ==
    /\ job.phase["company"] = "running"
    /\ job' = [job EXCEPT !.phase["company"] = "settled"]
    /\ company_verification' = CompanyVerificationResult(vd)
    /\ UNCHANGED <<score_op, web_intelligence, job_trust_score, analysis_components, gather,
                   clientVars, analysisVars, ruleVars, webVars, verifierVars>>

\* analyze_web_presence returns, its checks having ended as wi; without a
\* source URL the source URL check is _empty_url_analysis
SettleWebIntelligence(wi) ==
    /\ job.phase["web"] = "running"
    /\ job.input_type # "url" => wi.source_url_analysis = EmptyUrlAnalysis
    /\ job' = [job EXCEPT !.phase["web"] = "settled"]
    /\ web_intelligence' = WebIntelligenceResult(wi)
    /\ engine' = ClosedSession(Caller)
    /\ UNCHANGED <<score_op, company_verification, job_trust_score, analysis_components,
                   gather, clientVars, analysisVars, ruleVars, verifierVars>>

\* the awaited phase has returned: its result is stored in analysis_result and
\* its flag of processing_details is set
ResumeAfterPhase(phase) ==
    /\ job.pc = phase
    /\ Awaited(job.phase[phase])
    /\ job' = [job EXCEPT !.pc = NextPosition(phase),
                          !.processing_details[PhaseFlag(phase)] = TRUE]
    /\ UNCHANGED <<score_op, company_verification, web_intelligence, job_trust_score,
                   analysis_components, gather, clientVars, analysisVars, ruleVars, webVars,
                   verifierVars>>

\* phase 5: calculate_job_trust_score on the results of the phases
CalculateTrustScorePhase ==
    /\ job.pc = "score"
    /\ LET ac == [given |-> TRUE,
                  content_analysis |-> AggregatorView(content_analysis),
                  company_verification |-> company_verification,
                  web_intelligence |-> web_intelligence,
                  source_analysis |-> JobSourceAnalysis(job.input_type, web_intelligence),
                  red_flag_analysis |-> CompileRedFlags(job.posting, content_analysis,
                                                        company_verification, web_intelligence)]
       IN  /\ analysis_components' = ac
           /\ \E ups \in TrustScoreRoundings(ac) : job_trust_score' = TrustScoreResult(ac, ups)
    /\ job' = [job EXCEPT !.pc = "done", !.status = "completed",
                          !.processing_details.trust_calculation_successful = TRUE]
    /\ UNCHANGED <<score_op, company_verification, web_intelligence, gather, clientVars,
                   analysisVars, ruleVars, webVars, verifierVars>>

\* analyze_job_posting returns analysis_result
ReturnAnalysisResult ==
    /\ job.pc = "done"
    /\ job' = NoJob
    /\ detector_invoked' = FALSE
    /\ ai_results' = NoReturn
    /\ content_analysis' = NoContentAnalysis
    /\ company_verification' = NoCompanyVerification
    /\ web_intelligence' = NoWebIntelligence
    /\ job_trust_score' = NoJobTrustScore
    /\ analysis_components' = NoAnalysisComponents
    /\ engine' = RequestsReturned
    /\ UNCHANGED <<ai_enabled, api_key, ai_weight, rule_weight, entry, rule_results,
                   analysis_result, trust_score, analysis_call, clientVars, score_op, gather,
                   ruleVars, verifierVars>>

-----------------------------------------------------------------------------
(* Specifications *)

\* No call of the client is in progress
ClientIdle ==
    /\ cache_enabled = FALSE
    /\ cache = <<>>
    /\ pc = "idle"
    /\ text = [prefix |-> 0]
    /\ attempts = <<>>
    /\ requested = <<>>
    /\ primary_result = Pending
    /\ secondary_result = Pending
    /\ ret = NoReturn
    /\ requests = 0
    /\ all_timed_out = TRUE
    /\ last_valid = NoCall
    /\ raw_response = NoBody

\* No request was analysed; the settings have their defaults
AnalysisIdle ==
    /\ ai_enabled = TRUE
    /\ api_key = FALSE
    /\ ai_weight = 70
    /\ rule_weight = 30
    /\ entry = "none"
    /\ detector_invoked = FALSE
    /\ rule_results = NoRuleResults
    /\ ai_results = NoReturn
    /\ analysis_result = NoAnalysisResult
    /\ trust_score = NoTrustScore
    /\ content_analysis = NoContentAnalysis
    /\ analysis_call = NoAnalysisCall

-----------------------------------------------------------------------------
(* ResumeAnalyzer: the rule-based analysis of a text *)

\* the human errors (lowercase i, doubled spaces, periods or exclamation marks)
\* of a text are counted up to MaxErrors
MaxErrors == 10

\* the words of ai_indicators and the transitions of a text are counted up to
\* MaxBuzzwords and MaxTransitions
MaxBuzzwords == 2

MaxTransitions == 1

\* the texts have 10 sentences of 12 words each; the fixture is the one with no
\* word of ai_indicators and no transition
FixtureShape == [sentences |-> 10, words |-> 12]

\* before analyze_text is given a text
NoFixture ==
    [pc |-> "none", sentence_lengths |-> <<>>, first_word_repeat |-> 0, one_word |-> FALSE,
     error_count |-> 0, buzzword_count |-> 0, transition_count |-> 0]

\* The texts, by what the analyzer reads in them: the lengths of the
\* sentences, how many sentences start with the most frequent first word, the
\* number of human errors, the number of words that are in ai_indicators and
\* the number of transitions. The words are either one word repeated (nine of
\* them carrying the full stop that ends a sentence), or all different but for
\* the first word shared by first_word_repeat sentences; the words of
\* ai_indicators and the transitions are among the different ones.
Fixtures ==
    {f \in [pc : {"given"},
            sentence_lengths : {[i \in 1..FixtureShape.sentences |-> FixtureShape.words]},
            first_word_repeat : 1..FixtureShape.sentences, one_word : BOOLEAN,
            error_count : 0..MaxErrors, buzzword_count : 0..MaxBuzzwords,
            transition_count : 0..MaxTransitions] :
        f.one_word => /\ f.first_word_repeat = FixtureShape.sentences
                      /\ f.buzzword_count = 0
                      /\ f.transition_count = 0}

\* sum of a sequence of numbers
RECURSIVE SeqSum(_)
SeqSum(q) == IF q = <<>> THEN 0 ELSE q[1] + SeqSum(Tail(q))

\* min(entropy * 10, 100) of the 120 words of a text, in millionths: entry r is
\* the entropy of one word occurring r times among 120 - r words that occur
\* once, -(r/120) log2(r/120) - ((120 - r)/120) log2(1/120), times ten
PerplexityOfRepeat ==
    <<69068906, 68902239, 68672665, 68402239, 68101436, 67776425, 67431282, 67068906,
      66691462, 66300633>>

\* the same for one word occurring 111 times bare and 9 times with a full stop
PerplexityOfOneWord == 3843115

\* _calculate_perplexity, in millionths
CalculatePerplexity(f) ==
    IF SeqSum(f.sentence_lengths) < 10 THEN 50000000
    ELSE IF f.one_word THEN PerplexityOfOneWord
    ELSE PerplexityOfRepeat[f.first_word_repeat]

\* _check_repetitive_structures: the share of the sentences that start with the
\* most frequent first word, in millionths of a point; re.split gives one more
\* piece than the text has sentences, the empty piece after the last full stop
CheckRepetitiveStructures(f) ==
    IF Len(f.sentence_lengths) + 1 < 3 THEN 0
    ELSE Min((f.first_word_repeat * 100000000) \div Len(f.sentence_lengths), 100000000)

\* _assess_grammar_perfection, in millionths of a point
AssessGrammarPerfection(f) == Min(Max(0, 100000000 - f.error_count * 10000000), 100000000)

\* _calculate_buzzword_density: (buzzword_count / len(words)) * 100, in
\* millionths of a point
CalculateBuzzwordDensity(f) ==
    IF SeqSum(f.sentence_lengths) = 0 THEN 0
    ELSE Min((f.buzzword_count * 100000000) \div SeqSum(f.sentence_lengths), 100000000)

\* _check_sentence_uniformity, in millionths of a point, for sentences of one
\* length: the standard deviation is 0 and so is the coefficient of variation
CheckSentenceUniformity(f) ==
    IF Len(f.sentence_lengths) < 3 THEN 0
    ELSE IF SeqSum(f.sentence_lengths) = 0 THEN 0
    ELSE 100000000

\* _check_transition_overuse: (transition_count / len(words)) * 1000, in
\* hundred-thousandths of a point
CheckTransitionOveruse(f) ==
    IF SeqSum(f.sentence_lengths) = 0 THEN 0
    ELSE Min((f.transition_count * 100000000) \div SeqSum(f.sentence_lengths), 10000000)

\* _calculate_ai_probability, in millionths of a point: each factor is a score
\* over 100 times its weight, and the sum is taken times 100
CalculateAiProbability(f) ==
    LET total_score ==
            (Min(Max(100000000 - CalculatePerplexity(f), 0), 100000000) * 15) \div 100
            + CalculateBuzzwordDensity(f) \div 4
            + AssessGrammarPerfection(f) \div 5
            + (CheckRepetitiveStructures(f) * 15) \div 100
            + (CheckSentenceUniformity(f) * 15) \div 100
            + CheckTransitionOveruse(f)
    IN  Min(Max(total_score, 0), 100000000)

\* analyze_text is given a text of the fixture
GiveFixtureText(f) ==
    /\ fixture.pc = "none"
    /\ fixture' = f
    /\ UNCHANGED <<clientVars, analysisVars, scoreVars, jobVars, webVars, verifierVars>>

\* analyze_text: ai_probability is round(ai_probability, 2), confidence_level is
\* the level of the unrounded value
AnalyzeFixtureText(up) ==
    /\ fixture.pc = "given"
    /\ fixture' = [fixture EXCEPT !.pc = "analyzed"]
    /\ rule_results' = AnalyzeText(CalculateAiProbability(fixture), up)
    /\ UNCHANGED <<ai_enabled, api_key, ai_weight, rule_weight, entry, detector_invoked,
                   ai_results, analysis_result, trust_score, content_analysis, analysis_call,
                   clientVars, scoreVars, jobVars, webVars, verifierVars>>

-----------------------------------------------------------------------------
(* WebIntelligenceEngine: the session of overlapping analyze_web_presence calls *)

\* careers_paths of _check_careers_page holds six paths
CareersPaths == 6

\* self.session.get(...): the probe goes through the session that self.session
\* names when the coroutine reaches the call; a closed session raises. An
\* answer to a request in flight is drawn whatever has become of its session
SessionGet(r) ==
    [session |-> engine.session,
     raises |-> ~engine.open[engine.session],
     req |-> [engine.req[r] EXCEPT
                  !.probes = @ + 1,
                  !.foreign_session = @ \/ engine.session # r,
                  !.closed_session = @ \/ ~engine.open[engine.session]]]

\* analyze_web_presence of request r enters `async with ClientSession() as
\* session`, assigns self.session and awaits gather; company_domain tells
\* whether a domain was given
EnterSession(r, company_domain) ==
    /\ engine.req[r].pc = "idle"
    /\ engine' = [engine EXCEPT
                      !.session = r,
                      !.open[r] = TRUE,
                      !.req[r] = [NoWebRequest EXCEPT
                                      !.pc = IF company_domain THEN "domain" ELSE "gathered",
                                      !.company_domain = company_domain]]
    /\ UNCHANGED <<clientVars, analysisVars, scoreVars, jobVars, ruleVars, verifierVars>>

\* how the server answers a request in flight: a response of status 200, a
\* response of another status, or an exception of the request
ProbeAnswers == {"200", "404", "timeout", "reset"}

\* how reading the body of a response ends
TextAnswers == {"read", "timeout", "reset"}

\* str(e) of the exception of an answer: asyncio.TimeoutError has no message
ExceptionText(answer) ==
    IF answer = "timeout" THEN "" ELSE "connection reset by peer"

\* str(e) of the RuntimeError that a closed session raises
SessionClosedText == "Session is closed"

\* _analyze_company_domain of request r reaches `async with
\* self.session.get(domain)`: a closed session raises at once and the handler
\* sets error; otherwise the request for the home page is sent and awaited
ProbeDomain(r) ==
    /\ engine.req[r].pc = "domain"
    /\ LET g == SessionGet(r)
       IN  engine' = [engine EXCEPT
                          !.req[r] = IF g.raises
                                     THEN [g.req EXCEPT !.pc = "gathered",
                                                        !.error = <<SessionClosedText>>]
                                     ELSE [g.req EXCEPT !.pc = "domain_sent",
                                                        !.via = g.session]]
    /\ UNCHANGED <<clientVars, analysisVars, scoreVars, jobVars, ruleVars, verifierVars>>

\* the request for the home page of request r is answered: with status 200
\* is_accessible is set and the body is awaited, with another status the
\* analysis ends, an exception is recorded in error
ResumeProbeDomain(r, answer) ==
    /\ engine.req[r].pc = "domain_sent"
    /\ engine' = [engine EXCEPT
                      !.req[r] = IF answer = "200"
                                 THEN [@ EXCEPT !.pc = "domain_text", !.is_accessible = TRUE]
                                 ELSE IF answer = "404"
                                 THEN [@ EXCEPT !.pc = "gathered", !.via = 0]
                                 ELSE [@ EXCEPT !.pc = "gathered", !.via = 0,
                                                !.error = <<ExceptionText(answer)>>]]
    /\ UNCHANGED <<clientVars, analysisVars, scoreVars, jobVars, ruleVars, verifierVars>>

\* `await response.text()` of request r returns the body, after which
\* _check_careers_page is called, or raises, which is recorded in error
ReadResponseText(r, answer) ==
    /\ engine.req[r].pc = "domain_text"
    /\ engine' = [engine EXCEPT
                      !.req[r] = IF answer = "read"
                                 THEN [@ EXCEPT !.pc = "careers", !.path = 1, !.via = 0]
                                 ELSE [@ EXCEPT !.pc = "gathered", !.via = 0,
                                                !.error = <<ExceptionText(answer)>>]]
    /\ UNCHANGED <<clientVars, analysisVars, scoreVars, jobVars, ruleVars, verifierVars>>

\* the path after the one that did not answer with status 200: the loop of
\* _check_careers_page goes on, or ends and returns False
NextCareersPath(req) ==
    IF req.path < CareersPaths THEN [req EXCEPT !.pc = "careers", !.path = @ + 1, !.via = 0]
    ELSE [req EXCEPT !.pc = "gathered", !.via = 0]

\* _check_careers_page of request r reaches `async with
\* self.session.get(careers_url)` for its next path: the exception of a closed
\* session is swallowed and the loop goes on; otherwise the request is sent
\* and awaited
ProbeCareers(r) ==
    /\ engine.req[r].pc = "careers"
    /\ LET g == SessionGet(r)
       IN  engine' = [engine EXCEPT
                          !.req[r] = IF g.raises THEN NextCareersPath(g.req)
                                     ELSE [g.req EXCEPT !.pc = "careers_sent",
                                                        !.via = g.session]]
    /\ UNCHANGED <<clientVars, analysisVars, scoreVars, jobVars, ruleVars, verifierVars>>

\* the request for a careers path of request r is answered: status 200
\* returns True, another status or a swallowed exception leads to the next path
ResumeProbeCareers(r, answer) ==
    /\ engine.req[r].pc = "careers_sent"
    /\ engine' = [engine EXCEPT
                      !.req[r] = IF answer = "200"
                                 THEN [@ EXCEPT !.pc = "gathered", !.via = 0,
                                                !.careers_page_exists = TRUE]
                                 ELSE NextCareersPath(@)]
    /\ UNCHANGED <<clientVars, analysisVars, scoreVars, jobVars, ruleVars, verifierVars>>

\* gather has returned: request r leaves the `async with`, which closes its
\* session; self.session keeps naming the session it named
LeaveSession(r) ==
    /\ engine.req[r].pc = "gathered"
    /\ engine' = [engine EXCEPT !.open[r] = FALSE, !.req[r].pc = "done"]
    /\ UNCHANGED <<clientVars, analysisVars, scoreVars, jobVars, ruleVars, verifierVars>>

\* no request called analyze_web_presence
WebIdle == engine = NoEngine

-----------------------------------------------------------------------------
(* CompanyVerifier: the lookups and requests of the two domain checks *)

\* company_domain of verify_company where it is given: the checks are only
\* created for a non-empty company_domain
CompanyDomains == {<<"a","c","m","e",".","i","o">>, <<"h","t","t","p","s",":","/","/","w","w","w",".","a","c","m","e",".","i","o","/","j","o","b","s">>}

\* domain.startswith(('http://', 'https://'))
HasScheme(domain) == StartsWith(domain, <<"h","t","t","p",":","/","/">>) \/ StartsWith(domain, <<"h","t","t","p","s",":","/","/">>)

\* urlparse(domain).netloc of a domain that has a scheme: what stands between
\* the "//" and the next "/"
Netloc(domain) ==
    LET rest == IF StartsWith(domain, <<"h","t","t","p","s",":","/","/">>) THEN SubSeq(domain, 9, Len(domain))
                ELSE SubSeq(domain, 8, Len(domain))
        slashes == {i \in 1..Len(rest) : rest[i] = "/"}
    IN  IF slashes = {} THEN rest
        ELSE SubSeq(rest, 1, (CHOOSE i \in slashes : \A j \in slashes : i <= j) - 1)

\* "Clean domain" of _check_domain_info: the netloc of a URL, without a
\* leading "www."
CleanDomain(domain) ==
    LET netloc == IF HasScheme(domain) THEN Netloc(domain) ELSE domain
    IN  IF StartsWith(netloc, <<"w","w","w",".">>) THEN SubSeq(netloc, 5, Len(netloc)) ELSE netloc

\* test_urls of _check_domain_reputation: https first, then http, for a domain
\* without a scheme
TestUrls(domain) ==
    IF HasScheme(domain) THEN <<domain>> ELSE <<<<"h","t","t","p","s",":","/","/">> \o domain, <<"h","t","t","p",":","/","/">> \o domain>>

\* _check_domain_reputation was not called: reputation_info as it is
\* initialised, requests are the session.get calls it made, security_headers is
\* <<>> for the empty dict and <<n>> for a dict with n headers present, error
\* holds the message of reputation_info['error'] when the key is set
NoReputationInfo ==
    [pc |-> "idle", domain |-> <<>>, test_urls |-> <<>>, requests |-> <<>>,
     page_accessible |-> FALSE, ssl_certificate |-> FALSE, suspicious_redirects |-> FALSE,
     security_headers |-> <<>>, reputation_score |-> 5000, error |-> <<>>]

\* how a session.get of _check_domain_reputation can end: with a response that
\* came over history redirects and carries security_headers of the four
\* headers, or with an exception, of the network or not
GetAnswers ==
    {[kind |-> "response", exception |-> "", history |-> 4, security_headers |-> 3],
     [kind |-> "raises", exception |-> "TimeoutError", history |-> 0, security_headers |-> 0],
     [kind |-> "raises", exception |-> "TooManyRedirects", history |-> 0,
      security_headers |-> 0]}

\* "Calculate reputation score" of _check_domain_reputation, to its return:
\* with no page accessed security_headers is empty, the mean divides by zero,
\* the outer handler sets error and reputation_score stays 50.0
ScoreReputation(info) ==
    IF info.security_headers = <<>>
    THEN [info EXCEPT !.pc = "done", !.error = <<"division by zero">>]
    ELSE [info EXCEPT !.pc = "done",
                      !.reputation_score =
                          ReputationScore(info.ssl_certificate, info.suspicious_redirects,
                                          info.security_headers[1])]

\* _check_domain_reputation up to its await of the first session.get
CheckDomainReputation(domain) ==
    /\ reputation_info.pc = "idle"
    /\ reputation_info' = [NoReputationInfo EXCEPT !.pc = "getting", !.domain = domain,
                                                   !.test_urls = TestUrls(domain)]
    /\ UNCHANGED <<domain_info, clientVars, analysisVars, scoreVars, jobVars, ruleVars,
                   webVars>>

\* _check_domain_reputation from the end of a session.get: a response ends the
\* loop, an exception of any type is logged and the loop goes on to the next
\* of test_urls, at once; after the loop the score is calculated
ResumeCheckDomainReputation(answer) ==
    /\ reputation_info.pc = "getting"
    /\ LET info == reputation_info
           url == info.test_urls[Len(info.requests) + 1]
           sent == Append(info.requests,
                          [url |-> url, failed |-> answer.kind = "raises",
                           exception |-> answer.exception])
       IN  reputation_info' =
               IF answer.kind = "response"
               THEN ScoreReputation([info EXCEPT
                        !.requests = sent,
                        !.page_accessible = TRUE,
                        !.ssl_certificate = StartsWith(url, <<"h","t","t","p","s",":","/","/">>),
                        !.suspicious_redirects = answer.history > 3,
                        !.security_headers = <<answer.security_headers>>])
               ELSE IF Len(sent) < Len(info.test_urls)
               THEN [info EXCEPT !.requests = sent]
               ELSE ScoreReputation([info EXCEPT !.requests = sent])
    /\ UNCHANGED <<domain_info, clientVars, analysisVars, scoreVars, jobVars, ruleVars,
                   webVars>>

\* _check_domain_info was not called: domain_info as it is initialised,
\* lookups are the WHOIS and DNS lookups it made, error and note hold the
\* values of the keys when they are set, raised says the coroutine raised
NoDomainInfo ==
    [pc |-> "idle", domain |-> <<>>, lookups |-> <<>>, is_registered |-> FALSE,
     age_days |-> 0, is_suspicious |-> FALSE, error |-> <<>>, note |-> <<>>,
     raised |-> FALSE]

\* how whois.whois can end: with an exception, with an empty record, with a
\* record without a creation date or with one of age_days days ago
WhoisAnswers ==
    {[kind |-> "raises", creation_date |-> FALSE, age_days |-> 0],
     [kind |-> "empty", creation_date |-> FALSE, age_days |-> 0],
     [kind |-> "record", creation_date |-> FALSE, age_days |-> 0],
     [kind |-> "record", creation_date |-> TRUE, age_days |-> 5]}

\* str(e) of the exception of whois.whois
WhoisErrorText == "No match for domain"

\* how socket.gethostbyname can end: with an address, with socket.gaierror, or
\* with another exception, which the handler does not catch
DnsAnswers == {"resolved", "gaierror", "UnicodeError"}

\* _check_domain_info, which does not await: the WHOIS lookup of the cleaned
\* domain and, after an exception of it, the DNS lookup "as fallback"
CheckDomainInfo(domain, whois_answer, dns_answer) ==
    /\ domain_info.pc = "idle"
    /\ LET cleaned == CleanDomain(domain)
           whois == [service |-> "whois", domain |-> cleaned,
                     failed |-> whois_answer.kind = "raises"]
           dns == [service |-> "dns", domain |-> cleaned, failed |-> dns_answer # "resolved"]
           called == [NoDomainInfo EXCEPT !.pc = "done", !.domain = domain]
       IN  domain_info' =
               IF whois_answer.kind = "raises"
               THEN [called EXCEPT
                        !.lookups = <<whois, dns>>,
                        !.error = <<WhoisErrorText>>,
                        !.is_registered = (dns_answer = "resolved"),
                        !.note = IF dns_answer = "resolved"
                                 THEN <<"Domain exists but WHOIS data unavailable">>
                                 ELSE IF dns_answer = "gaierror"
                                 THEN <<"Domain does not resolve">>
                                 ELSE <<>>,
                        !.raised = (dns_answer = "UnicodeError")]
               ELSE IF whois_answer.kind = "empty"
               THEN [called EXCEPT !.lookups = <<whois>>]
               ELSE [called EXCEPT
                        !.lookups = <<whois>>,
                        !.is_registered = TRUE,
                        !.age_days = whois_answer.age_days,
                        !.is_suspicious = (whois_answer.creation_date
                                           /\ whois_answer.age_days < 30)]
    /\ UNCHANGED <<reputation_info, clientVars, analysisVars, scoreVars, jobVars, ruleVars,
                   webVars>>

\* No domain check of the CompanyVerifier was started
VerifierIdle == reputation_info = NoReputationInfo /\ domain_info = NoDomainInfo

\* analyze_text was given no text
RuleIdle == fixture = NoFixture

\* The job pipeline computed nothing
ScoreIdle ==
    /\ score_op = "none"
    /\ company_verification = NoCompanyVerification
    /\ web_intelligence = NoWebIntelligence
    /\ job_trust_score = NoJobTrustScore
    /\ analysis_components = NoAnalysisComponents
    /\ gather = NoGather
    /\ job = NoJob

InitClient ==
    /\ cache_enabled \in BOOLEAN
    /\ cache = <<>>
    /\ pc = "idle"
    /\ text = [prefix |-> 0]
    /\ attempts = <<>>
    /\ requested = <<>>
    /\ primary_result = Pending
    /\ secondary_result = Pending
    /\ ret = NoReturn
    /\ requests = 0
    /\ all_timed_out = TRUE
    /\ last_valid = NoCall
    /\ raw_response = NoBody
    /\ AnalysisIdle
    /\ ScoreIdle
    /\ RuleIdle
    /\ WebIdle
    /\ VerifierIdle

NextClient ==
    \/ \E t \in Texts : DetectAiGeneratedContent(t)
    \/ \E o \in RemoteOutcomes(AiDetectorModel) : TryAiDetectorModel(o)
    \/ \E o \in RemoteOutcomes(ClassificationModel) : TryClassificationModel(o)

SpecClient == InitClient /\ [][NextClient]_vars

\* The requests of the client and of the domain checks of the CompanyVerifier,
\* with settings.AI_CACHE_ENABLED off: every call of the client sends requests
InitRetry == InitClient /\ ~cache_enabled

\* the texts given to the client where its requests are followed next to those
\* of the verifier: one text that is sent to the remote service
RetriedTexts == {t \in Texts : t.prefix = 1}

\* the outcomes of an attempt there: every failure, and one body per model
RetriedOutcomes(model) ==
    Failures \cup
    {[kind |-> "ok", cls |-> <<>>, msg |-> <<>>, body |-> b] :
        b \in IF model = AiDetectorModel
              THEN {x \in PrimaryBodies : x.shape = "list_label_score" /\ x.score = 9200}
              ELSE {x \in SecondaryBodies : x.shape = "dict_other"}}

NextRetry ==
    \/ \E t \in RetriedTexts : DetectAiGeneratedContent(t)
    \/ \E o \in RetriedOutcomes(AiDetectorModel) : TryAiDetectorModel(o)
    \/ \E o \in RetriedOutcomes(ClassificationModel) : TryClassificationModel(o)
    \/ \E domain \in CompanyDomains : CheckDomainReputation(domain)
    \/ /\ reputation_info.pc = "getting"
       /\ \E answer \in GetAnswers : ResumeCheckDomainReputation(answer)
    \/ \E domain \in CompanyDomains, whois_answer \in WhoisAnswers, dns_answer \in DnsAnswers :
           CheckDomainInfo(domain, whois_answer, dns_answer)

SpecRetry == InitRetry /\ [][NextRetry]_vars

InitAnalysis ==
    /\ ClientIdle
    /\ ai_enabled \in BOOLEAN
    /\ api_key \in BOOLEAN
    /\ ai_weight \in AiWeightSettings
    /\ rule_weight \in RuleWeightSettings
    /\ entry = "none"
    /\ detector_invoked = FALSE
    /\ rule_results = NoRuleResults
    /\ ai_results = NoReturn
    /\ analysis_result = NoAnalysisResult
    /\ trust_score = NoTrustScore
    /\ content_analysis = NoContentAnalysis
    /\ analysis_call = NoAnalysisCall
    /\ ScoreIdle
    /\ RuleIdle
    /\ WebIdle
    /\ VerifierIdle

NextAnalysis ==
    \/ entry = "none"
       /\ \E x \in UnroundedProbabilities, ups \in Roundings : ComprehensiveAnalysis(x, ups)
    \/ \E e \in RuleAnalysisErrors : ComprehensiveAnalysisRaises(e)
    \/ entry = "resume" /\ analysis_call.pc = "awaiting"
       /\ \E o \in DetectOutcomes, ups \in Roundings : ResumeComprehensiveAnalysis(o, ups)
    \/ \E j \in JobPostings : AnalyzeJobContent(j)
    \/ entry = "job" /\ analysis_call.pc = "awaiting"
       /\ \E o \in DetectOutcomes : ResumeAnalyzeJobContent(o)
    \/ ReturnResponse

SpecAnalysis == InitAnalysis /\ [][NextAnalysis]_vars

InitScore ==
    /\ ClientIdle
    /\ AnalysisIdle
    /\ ScoreIdle
    /\ RuleIdle
    /\ WebIdle
    /\ VerifierIdle

NextScore ==
    \/ /\ score_op = "none"
       /\ VerifyCompany
    \/ /\ score_op = "company_gathering"
       /\ \E vd \in VerificationDetails : ResumeVerifyCompany(vd)
    \/ /\ score_op = "none"
       /\ AnalyzeWebPresence
    \/ /\ score_op = "web_gathering"
       /\ \E wi \in WebChecks : ResumeAnalyzeWebPresence(wi)
    \/ /\ score_op = "none"
       /\ \E ca \in ContentAnalyses, cv \in CompanyVerifications, wi \in WebIntelligences,
             sa \in SourceAnalyses, ra \in RedFlagAnalyses :
              CalculateJobTrustScore(ca, cv, wi, sa, ra)
    \/ ReturnJobResult

SpecScore == InitScore /\ [][NextScore]_vars

InitGather ==
    /\ ClientIdle
    /\ AnalysisIdle
    /\ ScoreIdle
    /\ RuleIdle
    /\ WebIdle
    /\ VerifierIdle

NextGather ==
    \/ \E orchestrator \in {"company", "web"} : StartChecks(orchestrator)
    \/ /\ gather.pc = "gathering"
       /\ \E name \in gather.pending :
              \E result \in CheckOutcomes(gather.orchestrator)[name] : SettleCheck(name, result)
    \/ ProcessResults
    \/ ReturnJobResult

SpecGather == InitGather /\ [][NextGather]_vars

InitJob ==
    /\ ClientIdle
    /\ AnalysisIdle
    /\ ScoreIdle
    /\ RuleIdle
    /\ WebIdle
    /\ VerifierIdle

NextJob ==
    \/ /\ job.pc = "idle"
       /\ \E input_type \in InputTypes, j \in JobPostings : StartJobAnalysis(input_type, j)
    \/ \E extracted \in BOOLEAN : ExtractJobContent(extracted)
    \/ \E i \in 1..Len(Phases) : BeginPhase(Phases[i])
    \/ /\ job.phase["content"] = "running"
       /\ \E o \in JobDetectOutcomes : SettleContentAnalysis(o)
    \/ /\ job.phase["company"] = "running"
       /\ \E vd \in JobVerificationDetails : SettleCompanyVerification(vd)
    \/ /\ job.phase["web"] = "running"
       /\ \E wi \in JobWebChecks : SettleWebIntelligence(wi)
    \/ \E i \in 1..Len(Phases) : ResumeAfterPhase(Phases[i])
    \/ CalculateTrustScorePhase
    \/ ReturnAnalysisResult

SpecJob == InitJob /\ [][NextJob]_vars

InitRule ==
    /\ ClientIdle
    /\ AnalysisIdle
    /\ ScoreIdle
    /\ RuleIdle
    /\ WebIdle
    /\ VerifierIdle

NextRule ==
    \/ /\ fixture.pc = "none"
       /\ \E f \in Fixtures : GiveFixtureText(f)
    \/ \E up \in BOOLEAN : AnalyzeFixtureText(up)

SpecRule == InitRule /\ [][NextRule]_vars

InitSessions ==
    /\ ClientIdle
    /\ AnalysisIdle
    /\ ScoreIdle
    /\ RuleIdle
    /\ WebIdle
    /\ VerifierIdle

NextSessions ==
    \/ \E r \in Requests, company_domain \in BOOLEAN : EnterSession(r, company_domain)
    \/ \E r \in Requests : ProbeDomain(r)
    \/ \E r \in Requests, answer \in ProbeAnswers : ResumeProbeDomain(r, answer)
    \/ \E r \in Requests, answer \in TextAnswers : ReadResponseText(r, answer)
    \/ \E r \in Requests : ProbeCareers(r)
    \/ \E r \in Requests, answer \in ProbeAnswers : ResumeProbeCareers(r, answer)
    \/ \E r \in Requests : LeaveSession(r)

SpecSessions == InitSessions /\ [][NextSessions]_vars

-----------------------------------------------------------------------------
(* Claims about the AI detector client, checked under SpecClient *)

\* Neither model gave a valid score in the call that just ended
NeitherModelValid ==
    /\ primary_result.form = "model_fallback"
    /\ secondary_result.form = "model_fallback"

\* Every attempt allowed to both models was made and timed out
AllAttemptsTimedOut == all_timed_out /\ requests = 2 * 3

\* C1: For every text and every behaviour of the remote service,
\* detect_ai_generated_content returns a result and never raises; whenever
\* neither model yields a valid score the result has fallback_mode = true and a
\* non-empty error reason, and the reason contains 'timeout' when all 3 attempts
\* timed out.
C1_NeverRaisesFallbackHasReason ==
    pc = "done" =>
        /\ ret.kind = "returned"
        /\ NeitherModelValid => (ret.value.fallback_mode /\ ret.value.error # <<>>)
        /\ (NeitherModelValid /\ AllAttemptsTimedOut) => Contains(ret.value.error, <<"t","i","m","e","o","u","t">>)

\* The call in progress ended with a valid score
EndedValid == pc = "done" /\ ret.kind = "returned" /\ ~ret.value.fallback_mode

\* C2: With caching enabled, the first successful result is stored in the
\* cache, and a later call with the same text, the cache unchanged since,
\* returns the identical result without a new request to the remote service.
C2_SecondCallIsCacheHit ==
    /\ (cache_enabled /\ EndedValid) =>
           GenerateCacheKey(text, AiDetectorModel, "ai_detection") \in DOMAIN cache
    /\ (cache_enabled /\ pc = "done" /\ last_valid # NoCall /\ last_valid.text = text) =>
           (requests = 0 /\ ret = Returned(last_valid.value))

\* The latest _make_api_request was made for this model
LatestModel == IF requested = <<>> THEN "" ELSE requested[Len(requested)]

\* Within one _make_api_request a further attempt is made only after a timeout
\* or a connection failure, never more than 3 attempts are made, and an HTTP
\* status error is never retried but converted directly into a Fallback for
\* that model
ClientRetriesOnlyTransient ==
    /\ Len(attempts) <= 3
    /\ \A i \in 1..(Len(attempts) - 1) : attempts[i] \in {"timeout", "connect_error"}
    /\ (attempts # <<>> /\ attempts[Len(attempts)] = "http_error") =>
           IF LatestModel = AiDetectorModel
           THEN primary_result.form = "model_fallback" /\ pc = "secondary"
           ELSE secondary_result.form = "model_fallback" /\ pc = "done"

\* In a sequence of lookups or requests none was made after a failed one
NoFurtherAttempt(sent) == \A i \in 1..(Len(sent) - 1) : ~sent[i].failed

\* C3: Within one _make_api_request a further attempt is made only after a
\* timeout or a connection failure, never more than 3 attempts are made, and an
\* HTTP status error is never retried but converted directly into a Fallback
\* for that model. No component other than the client retries: a domain check
\* of the CompanyVerifier makes no request and no lookup after a failed one.
C3_RetryOnlyTransientAtMostThree ==
    /\ ClientRetriesOnlyTransient
    /\ NoFurtherAttempt(reputation_info.requests)
    /\ NoFurtherAttempt(domain_info.lookups)

\* C4: On a cache miss the specialized model is requested first; the
\* classification model is requested only after the specialized model yielded
\* Fallback, never after a valid score, and at most once; the overall result is
\* Fallback only if both yielded Fallback.
C4_TwoTierOrder ==
    /\ Len(requested) <= 2
    /\ (requested # <<>> => requested[1] = AiDetectorModel)
    /\ (Len(requested) = 2 =>
           requested[2] = ClassificationModel /\ primary_result.form = "model_fallback")
    /\ (pc = "secondary" => primary_result.form = "model_fallback")
    /\ (primary_result.form = "analysis" => (Len(requested) = 1 /\ pc = "done"))
    /\ (pc = "done" /\ ret.kind = "returned" /\ requests > 0 /\ ret.value.fallback_mode) =>
           NeitherModelValid

\* C4 witness: both models were requested, in order, and both yielded Fallback
C4_Witness ==
    /\ pc = "done"
    /\ requested = <<AiDetectorModel, ClassificationModel>>
    /\ NeitherModelValid
    /\ ret.value.fallback_mode

-----------------------------------------------------------------------------
(* Claims about the ensemble combiner and the feature flag, checked under
   SpecAnalysis *)

\* comprehensive_analysis has returned its result to the route handler
ResumeReturned == entry = "resume" /\ analysis_call.pc = "returned"

\* The latest request was a resume analysis whose AI result was a Fallback,
\* an exception, or was never asked for
AiAbsent ==
    /\ ResumeReturned
    /\ \/ ai_results.kind \in {"none", "raised"}
       \/ ai_results.value.fallback_mode

\* C5: If the AI detector client returns Fallback, raises or is skipped,
\* comprehensive_analysis reports an ensemble score equal to the rule-based
\* ai_probability, analysis_method 'rule_based_only', ai_enhanced false and
\* confidence boost 0, and the trust score is the plain one of that score,
\* without AI enhancement.
C5_FallbackIsBaselineOnly ==
    AiAbsent =>
        /\ analysis_result.ensemble_score = rule_results.ai_probability
        /\ analysis_result.analysis_method = "rule_based_only"
        /\ analysis_result.ai_enhanced = FALSE
        /\ analysis_result.confidence_boost = 0
        /\ \E up \in BOOLEAN : trust_score = CalculateMvp1Score(rule_results.ai_probability, up)
        /\ trust_score.ai_enhancement_applied = FALSE

\* C5 witness: the detector was called for a resume with a positive rule-based
\* probability and returned a Fallback
C5_Witness ==
    /\ ResumeReturned
    /\ detector_invoked
    /\ ai_results.kind = "returned"
    /\ ai_results.value.fallback_mode
    /\ rule_results.ai_probability > 0
    /\ analysis_result.ai_analysis_attempted

\* C6: When the AI-detection flag is disabled no analysis entry point invokes
\* the remote detector, and the ensemble combiner takes the baseline-only path.
C6_DisabledFlagNeverInvokesDetector ==
    ~ai_enabled =>
        /\ ~detector_invoked
        /\ ResumeReturned => analysis_result.analysis_method = "rule_based_only"

\* The ensemble was made from a valid AI score
Enhanced == ResumeReturned /\ analysis_result.ai_enhanced

\* C7: When the AI score is valid the ensemble score is
\* ai_prob*W_ai + rule_prob*W_rule rounded to 2 decimals, lies between the two
\* inputs and within [0, 100].
C7_EnsembleBetweenInputs ==
    Enhanced =>
        LET ai == ai_results.value.ai_probability
            rule == rule_results.ai_probability
            ensemble == analysis_result.ensemble_score
        IN  /\ \E up \in BOOLEAN :
                   ensemble = RoundDiv(ai * ai_weight + rule * rule_weight, 100, up)
            /\ Min(ai, rule) <= ensemble
            /\ ensemble <= Max(ai, rule)
            /\ 0 <= ensemble /\ ensemble <= 10000

\* The level a confidence label names: the words before " confidence"
NamedLevels(label) ==
    {i \in DOMAIN ConfidenceMap :
        StartsWith(Lower(label), ConfidenceMap[i].key \o <<" ","c","o","n","f","i","d","e","n","c","e">>)}

\* num of the claim: the table value of the level the label names, 50 for a
\* label that names none
TableValue(label) ==
    IF NamedLevels(label) = {} THEN 50
    ELSE ConfidenceMap[CHOOSE i \in NamedLevels(label) : TRUE].value

\* C8: confidence_delta is max(0, num(AI label) - num(rule-based label)), never
\* negative, where num maps every label that names one of the seven levels to
\* that level's own table value and any other label to 50.
C8_ConfidenceDeltaFromTable ==
    Enhanced =>
        /\ analysis_result.confidence_boost >= 0
        /\ analysis_result.confidence_boost =
               Max(0, TableValue(ai_results.value.confidence_level)
                      - TableValue(rule_results.confidence_level))

\* C9: The consensus label depends only on
\* d = |ai_probability - rule_probability|: Strong when d <= 15, Moderate when
\* 15 < d <= 30, Weak when d > 30, whichever method scored higher.
C9_ConsensusFromAbsoluteDifference ==
    Enhanced =>
        LET ai == ai_results.value.ai_probability
            rule == rule_results.ai_probability
            d == IF ai >= rule THEN ai - rule ELSE rule - ai
        IN  /\ d <= 1500 => analysis_result.method_consensus = "Strong"
            /\ (d > 1500 /\ d <= 3000) => analysis_result.method_consensus = "Moderate"
            /\ d > 3000 => analysis_result.method_consensus = "Weak"

-----------------------------------------------------------------------------
(* Claims about the score calculators of the job pipeline, checked under
   SpecScore *)

InScoreRange(score) == 0 <= score /\ score <= 1000000

\* C10: every score of the job pipeline is within 0 and 100: the
\* overall_legitimacy_score of verify_company, the overall_web_credibility of
\* analyze_web_presence, the five component scores of the aggregator and its
\* overall score (as computed, and as reported after rounding to one decimal).
C10_ScoresWithinBounds ==
    /\ score_op = "company" => InScoreRange(company_verification.overall_legitimacy_score)
    /\ score_op = "web" => InScoreRange(web_intelligence.overall_web_credibility)
    /\ score_op = "score" =>
           /\ InScoreRange(job_trust_score.content_authenticity)
           /\ InScoreRange(job_trust_score.company_legitimacy)
           /\ InScoreRange(job_trust_score.web_intelligence)
           /\ InScoreRange(job_trust_score.posting_source)
           /\ InScoreRange(job_trust_score.red_flag_analysis)
           /\ 0 <= job_trust_score.overall_score
           /\ job_trust_score.overall_score <= 100000000
           /\ 0 <= job_trust_score.overall_trust_score
           /\ job_trust_score.overall_trust_score <= 1000

\* the aggregator was given a legitimacy score of 100 with green flags, a web
\* credibility of 0 with warning signs and the worst content: the sums 115,
\* -20 and -30 were brought back to 100, 0 and 0
C10_Witness ==
    /\ score_op = "score"
    /\ company_verification.overall_legitimacy_score = 1000000
    /\ Len(company_verification.green_flags) = MaxFlags
    /\ web_intelligence.has_score
    /\ web_intelligence.overall_web_credibility = 0
    /\ web_intelligence.warning_signs = MaxFlags
    /\ job_trust_score.company_legitimacy = 1000000
    /\ job_trust_score.web_intelligence = 0
    /\ job_trust_score.content_authenticity = 0

-----------------------------------------------------------------------------
(* Further claims about the resume pipeline, checked under SpecAnalysis *)

\* C11: whenever comprehensive_analysis combined an ensemble score within 0
\* and 100, the overall_trust_score it returns is within 0 and 100, the
\* AI-enhancement bonus included.
C11_ResumeTrustScoreWithinBounds ==
    (ResumeReturned
     /\ 0 <= analysis_result.ensemble_score /\ analysis_result.ensemble_score <= 10000)
        => (0 <= trust_score.overall_trust_score /\ trust_score.overall_trust_score <= 10000)

-----------------------------------------------------------------------------
(* Further claims about the job pipeline, checked under SpecScore and SpecGather *)

\* the share of the 100 points that _calculate_legitimacy_score gives to a check
CheckWeight(check) ==
    CASE check = "domain_analysis" -> 35
      [] check = "domain_reputation" -> 10
      [] check = "online_presence" -> 25
      [] check = "business_patterns" -> 15
      [] check = "name_quality" -> 15

\* the checks of a verification that failed
FailedChecks(vd) == {name \in DOMAIN vd : vd[name].failed}

\* the sum of the points of a set of checks
RECURSIVE SumOfParts(_, _)
SumOfParts(vd, names) ==
    IF names = {} THEN 0
    ELSE LET name == CHOOSE n \in names : TRUE
         IN  LegitimacyPart(vd, name) + SumOfParts(vd, names \ {name})

\* C12: when exactly one of the five checks of verify_company failed, overall_legitimacy_score is the sum of the points of the four other checks divided by the sum of their weights, so that four checks at full marks give 100.
C12_WeightsRenormalized ==
    (score_op = "company" /\ Cardinality(FailedChecks(company_verification.verification_details)) = 1)
        => LET vd == company_verification.verification_details
               failed_check == CHOOSE name \in FailedChecks(vd) : TRUE
           IN  company_verification.overall_legitimacy_score * (100 - CheckWeight(failed_check))
                   = 100 * SumOfParts(vd, DOMAIN vd \ {failed_check})

\* what the running orchestrator recorded for each of its checks
RecordedChecks ==
    IF gather.orchestrator = "company" THEN company_verification.verification_details
    ELSE web_intelligence.checks

\* C13: in verify_company and in analyze_web_presence the five checks are started as one batch; the score and the flags are computed only when all five have settled; and whatever a check raised, the result of every check is recorded as that check ended.
C13_AllChecksSettleBeforeProcessing ==
    /\ gather.pc = "gathering"
           => (score_op = "none" /\ gather.pending \subseteq {CheckNames(gather.orchestrator)[i] : i \in 1..5})
    /\ gather.pc = "done"
           => /\ gather.pending = {}
              /\ score_op = gather.orchestrator
              /\ \A i \in 1..5 :
                     LET name == CheckNames(gather.orchestrator)[i]
                     IN  RecordedChecks[name] = gather.results[name]

\* verify_company processed a batch whose domain check raised: the four other
\* checks, which ended without an error, are recorded and scored
C13_Witness ==
    /\ gather.pc = "done"
    /\ gather.orchestrator = "company"
    /\ gather.results.domain_analysis.raised
    /\ \A name \in DOMAIN gather.results \ {"domain_analysis"} : ~gather.results[name].failed
    /\ company_verification.verification_details.name_quality = gather.results.name_quality
    /\ company_verification.overall_legitimacy_score > 0

\* the details of a verification with every failed check given an error that
\* is not empty, whatever the message it failed with
WithFailuresMarked(vd) ==
    [name \in DOMAIN vd |->
        IF vd[name].failed THEN [vd[name] EXCEPT !.error = "failed"] ELSE vd[name]]

\* C14: every check of verify_company that failed, by raising any exception (one with an empty message included) or by reporting an error, gives no points to overall_legitimacy_score and no entry to red_flags or green_flags.
C14_FailedChecksExcluded ==
    score_op = "company"
        => LET vd == WithFailuresMarked(company_verification.verification_details)
           IN  /\ company_verification.overall_legitimacy_score = CalculateLegitimacyScore(vd)
               /\ company_verification.red_flags = AnalyzeFlags(vd).red_flags
               /\ company_verification.green_flags = AnalyzeFlags(vd).green_flags

\* name in flags
HasFlag(flags, name) == \E i \in 1..Len(flags) : flags[i] = name

\* C15: in the result of verify_company, the very-new-domain red flag is present exactly when the domain check succeeded with a domain less than 30 days old, the SSL green flag exactly when the reputation check succeeded and found SSL, and the scam-keyword red flag exactly when the business check matched at least 2 scam keywords.
C15_FlagThresholds ==
    score_op = "company"
        => LET vd == company_verification.verification_details
           IN  /\ HasFlag(company_verification.red_flags, "very_new_domain")
                      <=> (~vd.domain_analysis.failed /\ vd.domain_analysis.is_registered
                           /\ vd.domain_analysis.age_days < 30)
               /\ HasFlag(company_verification.green_flags, "ssl")
                      <=> (~vd.domain_reputation.failed /\ vd.domain_reputation.ssl_certificate)
               /\ HasFlag(company_verification.red_flags, "scam_keywords")
                      <=> (~vd.business_patterns.failed
                           /\ vd.business_patterns.common_scam_patterns >= 2)

\* the same subject with no scam keyword in its name and the domain d
WithoutScamOnDomain(vd, d) ==
    [vd EXCEPT !.domain_analysis = d, !.business_patterns.common_scam_patterns = 0]

\* outcomes of the domain check for a registered domain that is not new
DomainsNotNew == {d \in DomainInfos : ~d.failed /\ d.is_registered /\ d.age_days >= 30}

\* C16: a subject whose name matches two scam keywords and whose domain was registered 5 days ago has a scam-keyword entry and a very-new-domain entry in red_flags, and an overall_legitimacy_score strictly below that of the same subject, every other check outcome unchanged, with no scam keyword and a domain that is not new.
C16_ScamNameOnNewDomain ==
    LET vd == company_verification.verification_details
    IN  (/\ score_op = "company"
         /\ ~vd.business_patterns.failed
         /\ vd.business_patterns.common_scam_patterns = 2
         /\ ~vd.domain_analysis.failed
         /\ vd.domain_analysis.is_registered
         /\ vd.domain_analysis.age_days = 5)
            => /\ HasFlag(company_verification.red_flags, "scam_keywords")
               /\ HasFlag(company_verification.red_flags, "very_new_domain")
               /\ \A d \in DomainsNotNew :
                      company_verification.overall_legitimacy_score
                          < CalculateLegitimacyScore(WithoutScamOnDomain(vd, d))

\* verify_company returned for a name with two scam keywords on a domain of 5
\* days, with every check succeeding: both red flags are in the list
C16_Witness ==
    /\ score_op = "company"
    /\ \A name \in DOMAIN company_verification.verification_details :
           ~company_verification.verification_details[name].failed
    /\ company_verification.verification_details.business_patterns.common_scam_patterns = 2
    /\ company_verification.verification_details.domain_analysis.age_days = 5
    /\ company_verification.verification_details.domain_analysis.is_registered
    /\ HasFlag(company_verification.red_flags, "scam_keywords")
    /\ HasFlag(company_verification.red_flags, "very_new_domain")
    /\ company_verification.overall_legitimacy_score > 0

\* the five tiers from the worst to the best; 0 for any other text
TierRank(trust_level) ==
    CASE trust_level = "Very High Trust - Highly Likely Legitimate" -> 5
      [] trust_level = "High Trust - Likely Legitimate" -> 4
      [] trust_level = "Moderate Trust - Proceed with Caution" -> 3
      [] trust_level = "Low Trust - Exercise Significant Caution" -> 2
      [] trust_level = "Very Low Trust - High Risk of Scam" -> 1
      [] OTHER -> 0

\* the tier that the threshold table gives to a score in millionths of a point
TableRank(overall_score) ==
    CASE overall_score >= 85000000 -> 5
      [] overall_score < 85000000 /\ overall_score >= 70000000 -> 4
      [] overall_score < 70000000 /\ overall_score >= 55000000 -> 3
      [] overall_score < 55000000 /\ overall_score >= 35000000 -> 2
      [] overall_score < 35000000 -> 1

\* scores on both sides of every threshold, in millionths of a point
TierScores ==
    {0, 34999999, 35000000, 54999999, 55000000, 69999999, 70000000, 84999999, 85000000,
     100000000}

\* C17: the tier that _determine_trust_level returns is the one of the threshold table (at least 85 Very High, at least 70 High, at least 55 Moderate, at least 35 Low, else Very Low), and of two overall scores the higher never gets a worse tier than the lower.
C17_TierTableMonotone ==
    /\ (score_op = "score" /\ job_trust_score.error = "")
           => TierRank(job_trust_score.trust_level) = TableRank(job_trust_score.overall_score)
    /\ \A a \in TierScores \cup {job_trust_score.overall_score} :
           /\ TierRank(DetermineTrustLevel(a)) = TableRank(a)
           /\ \A b \in TierScores \cup {job_trust_score.overall_score} :
                  a <= b => TierRank(DetermineTrustLevel(a)) <= TierRank(DetermineTrustLevel(b))

\* an overall score between 55 and 70 was given the Moderate tier
C17_Witness ==
    /\ score_op = "score"
    /\ job_trust_score.error = ""
    /\ job_trust_score.overall_score >= 55000000
    /\ job_trust_score.overall_score < 70000000
    /\ job_trust_score.trust_level = "Moderate Trust - Proceed with Caution"

\* C18: every verdict that calculate_job_trust_score returns, also for an input that makes the aggregation fail, has overall_trust_score within 0 and 100, one of the five tier texts as trust_level, a component_breakdown giving score, weight and contribution for each of the five components, and the lists recommendations and next_steps.
C18_VerdictFieldContract ==
    score_op = "score"
        => /\ 0 <= job_trust_score.overall_trust_score
           /\ job_trust_score.overall_trust_score <= 1000
           /\ TierRank(job_trust_score.trust_level) >= 1
           /\ DOMAIN job_trust_score.component_breakdown = ComponentNames
           /\ \A component \in DOMAIN job_trust_score.component_breakdown :
                  DOMAIN job_trust_score.component_breakdown[component]
                      = {"score", "weight", "contribution"}
           /\ DOMAIN job_trust_score.recommendations = 1..Len(job_trust_score.recommendations)
           /\ DOMAIN job_trust_score.next_steps = 1..Len(job_trust_score.next_steps)

\* the aggregator was given a component with a field of an unexpected type
AggregationFails ==
    analysis_components.content_analysis.malformed
    \/ analysis_components.red_flag_analysis.malformed

\* C19: calculate_job_trust_score never lets an exception out: it always returns, and when combining the components fails it returns the failure verdict, with overall_trust_score 0.0 and the reason of the failure in error.
C19_AggregationFailureCaught ==
    score_op = "score"
        => /\ job_trust_score.outcome = "returned"
           /\ AggregationFails
                  => /\ job_trust_score.overall_trust_score = 0
                     /\ job_trust_score.trust_level = "Analysis Failed"
                     /\ job_trust_score.error # ""
           /\ ~AggregationFails => job_trust_score.error = ""

\* red_flag_analysis had None for content_red_flags: the verdict is the
\* failure verdict with the message of the TypeError
C19_Witness ==
    /\ score_op = "score"
    /\ analysis_components.red_flag_analysis.malformed
    /\ ~analysis_components.content_analysis.malformed
    /\ job_trust_score.outcome = "returned"
    /\ job_trust_score.overall_trust_score = 0
    /\ job_trust_score.error = "object of type 'NoneType' has no len()"

\* the components of analysis_components that are not empty
PresentComponents ==
    {component \in ComponentNames :
        CASE component = "content_authenticity" -> analysis_components.content_analysis.present
          [] component = "company_legitimacy" -> analysis_components.company_verification.present
          [] component = "web_intelligence" -> analysis_components.web_intelligence.present
          [] component = "posting_source" -> analysis_components.source_analysis.present
          [] component = "red_flag_analysis" -> analysis_components.red_flag_analysis.present}

\* the sum of f over a set of components
RECURSIVE SumOver(_, _)
SumOver(f, components) ==
    IF components = {} THEN 0
    ELSE LET component == CHOOSE c \in components : TRUE
         IN  f[component] + SumOver(f, components \ {component})

\* C20: the overall score of calculate_job_trust_score is the weighted sum of the scores of the components that are present, with their weights scaled to sum to 1.0; an absent component contributes nothing.
C20_WeightsRedistributed ==
    (score_op = "score" /\ job_trust_score.error = "" /\ PresentComponents # {})
        => LET weights == SumOver(WEIGHT_DISTRIBUTION, PresentComponents)
               contributions ==
                   SumOver([component \in ComponentNames |->
                                job_trust_score[component] * WEIGHT_DISTRIBUTION[component]],
                           PresentComponents)
               \* contributions * 100 / weights, computed without leaving 32 bits
               quotient == (contributions \div weights) * 100
                               + ((contributions % weights) * 100) \div weights
               remainder == ((contributions % weights) * 100) % weights
           IN  remainder = 0 /\ job_trust_score.overall_score = quotient

\* verify_company was called without a domain: both domain checks are
\* _create_empty_result, which carries the note 'No domain provided for analysis'
NoDomainGiven(vd) == vd.domain_analysis.note /\ vd.domain_reputation.note

\* the flags that _analyze_flags derives from the two domain checks
DomainFlags ==
    {"very_new_domain", "established_domain", "reasonable_age_domain", "registrar", "no_ssl",
     "suspicious_redirects", "ssl"}

\* C30: when verify_company is called without a domain, the two domain checks give no points to overall_legitimacy_score and no flag (no 'Website does not use SSL certificate' red flag in particular): the result depends on the three checks of the name only.
C30_NoDomainChecksSkipped ==
    (score_op = "company" /\ NoDomainGiven(company_verification.verification_details))
        => LET vd == company_verification.verification_details
           IN  /\ company_verification.overall_legitimacy_score
                      = SumOfParts(vd, {"online_presence", "business_patterns", "name_quality"})
               /\ \A flag \in DomainFlags :
                      /\ ~HasFlag(company_verification.red_flags, flag)
                      /\ ~HasFlag(company_verification.green_flags, flag)

-----------------------------------------------------------------------------
(* Claims about analyze_job_posting, checked under SpecJob *)

\* every phase has returned or was skipped
AllPhasesSettled == \A i \in 1..Len(Phases) : job.phase[Phases[i]] \in {"settled", "skipped"}

\* C21: within one analyze_job_posting request, the trust score is calculated only after the content analysis, the company verification and the web intelligence analysis have each settled or been skipped, and the component results the aggregator was given are the ones their producers ended with.
C21_AggregationAfterAllPhases ==
    /\ job.pc = "score" => AllPhasesSettled
    /\ job.status = "completed"
           => /\ AllPhasesSettled
              /\ analysis_components.content_analysis = AggregatorView(content_analysis)
              /\ analysis_components.company_verification = company_verification
              /\ analysis_components.web_intelligence = web_intelligence

\* a request whose three phases all ran has its trust score, calculated from
\* the results of the three
C21_Witness ==
    /\ job.status = "completed"
    /\ \A i \in 1..Len(Phases) : job.phase[Phases[i]] = "settled"
    /\ content_analysis.scored
    /\ company_verification.present
    /\ web_intelligence.present
    /\ analysis_components.company_verification = company_verification
    /\ job_trust_score.present

\* C22: analyze_job_posting returns for every input, an unsupported input type or a failed content extraction included, and what it returns carries a complete trust verdict: overall_trust_score, trust_level, recommendations and next_steps.
C22_AlwaysCompleteVerdict ==
    job.pc = "done"
        => /\ job.status \in {"completed", "failed"}
           /\ job_trust_score.present
           /\ job_trust_score.outcome = "returned"
           /\ 0 <= job_trust_score.overall_trust_score
           /\ job_trust_score.overall_trust_score <= 1000
           /\ job_trust_score.trust_level # ""
           /\ job_trust_score.recommendations # <<>>
           /\ job_trust_score.next_steps # <<>>

\* the detector results of the model that are valid, below 30 and above 70
ValidOutcomes == {o \in JobDetectOutcomes : o.kind = "returned" /\ ~o.value.fallback_mode}

\* the content_authenticity score that phase 5 gives to the posting j when the
\* detector ended as o
ContentAuthenticity(j, o) == CalculateContentScore(AggregatorView(JobContentAnalysis(j, o)))

\* C28: in analyze_job_posting the content_authenticity score of the verdict depends on the content analysis: a posting whose detected AI probability is above 70 scores strictly lower than the same posting with a probability below 30, and a posting with detected red-flag keywords scores lower than the same posting with none.
C28_ContentScoreFollowsAnalysis ==
    (job.status = "completed" /\ content_analysis.scored)
        => /\ (~content_analysis.ai_analysis.fallback_mode
               /\ content_analysis.ai_analysis.ai_probability > 7000)
                  => \A o \in ValidOutcomes :
                         o.value.ai_probability < 3000
                             => job_trust_score.content_authenticity
                                    < ContentAuthenticity(job.posting, o)
           /\ job.posting.critical + job.posting.warning > 0
                  => job_trust_score.content_authenticity
                         < ContentAuthenticity([job.posting EXCEPT !.critical = 0, !.warning = 0],
                                               ai_results)

\* C29: the processing_details flags of an analyze_job_posting result are truthful: ai_analysis_successful only if the detector returned a non-fallback result and the content analysis recorded no error, company_verification_successful only if verify_company recorded no top-level error, trust_calculation_successful only if the verdict is not the failure verdict.
C29_ProcessingFlagsTruthful ==
    job.pc = "done"
        => /\ job.processing_details.ai_analysis_successful
                  => /\ content_analysis.error = <<>>
                     /\ content_analysis.scored
                     /\ ~content_analysis.ai_analysis.fallback_mode
           /\ job.processing_details.company_verification_successful
                  => company_verification.error = ""
           /\ job.processing_details.trust_calculation_successful
                  => job_trust_score.outcome = "returned"

\* C27: in every verdict of calculate_job_trust_score the reported trust_level is the tier that the threshold table assigns to the reported overall_trust_score, the value rounded to one decimal: a score shown as 85.0, 70.0, 55.0 or 35.0 never comes with the tier below that threshold.
C27_TierOfReportedScore ==
    (job_trust_score.present /\ job_trust_score.outcome = "returned"
     /\ job_trust_score.error = "")
        => job_trust_score.trust_level
               = DetermineTrustLevel(job_trust_score.overall_trust_score * 100000)

\* the call in progress ended with a valid score that a request of this call
\* produced (not one read in the cache)
ValidScoreFromRequest ==
    /\ pc = "done"
    /\ ret.kind = "returned"
    /\ ~ret.value.fallback_mode
    /\ requests > 0

\* the shapes that the processing of each model reads a score from
RecognizedShapes(model) ==
    IF model = AiDetectorModel THEN {"list_label_score", "list_candidates", "list_ai_probability"}
    ELSE {"dict_labels_scores"}

\* C26: detect_ai_generated_content returns a non-fallback score only when the body of the 200 response matched a recognized shape; a body of unrecognized or empty shape (an empty list, a list whose first element is a list, a dict without labels and scores) yields the fallback and is never reported as a valid score of ai_probability 0.
C26_ValidScoreOnlyFromRecognizedShape ==
    ValidScoreFromRequest
        => raw_response.shape \in RecognizedShapes(requested[Len(requested)])

\* the candidate with the highest score among the candidates of a list body
BestCandidate(raw) ==
    IF raw.shape = "list_label_score" THEN [label |-> raw.label, score |-> raw.score]
    ELSE LET best == CHOOSE i \in DOMAIN raw.scores :
                         \A j \in DOMAIN raw.scores : raw.scores[j] <= raw.scores[i]
         IN  [label |-> raw.labels[best], score |-> raw.scores[best]]

\* the AI probability (hundredths of a point) that a candidate stands for
CandidateProbability(c) ==
    IF IsAiLabelUpper(Upper(c.label)) THEN c.score ELSE 10000 - c.score

\* the AI probability that the selected label of a labels/scores body stands for:
\* the first AI label, else the first human label
SelectedLabelProbability(raw) ==
    LET n == Min(Len(raw.labels), Len(raw.scores))
        aiIdx == {i \in 1..n : IsAiLabelLower(Lower(raw.labels[i]))}
        humanIdx == {i \in 1..n : Contains(Lower(raw.labels[i]), <<"h","u","m","a","n">>)}
    IN  IF aiIdx # {} THEN raw.scores[CHOOSE i \in aiIdx : \A j \in aiIdx : i <= j]
        ELSE IF humanIdx # {}
        THEN 10000 - raw.scores[CHOOSE i \in humanIdx : \A j \in humanIdx : i <= j]
        ELSE 0 - 1

\* C24: the AI client normalizes both response shapes: for a label and score body with several candidates, as a flat list or as a nested list, the candidate with the highest score determines ai_probability; for a labels/scores body the score paired with the selected label determines it; ai_probability is always in [0, 100].
C24_HighestCandidateDetermines ==
    ValidScoreFromRequest
        => /\ 0 <= ret.value.ai_probability /\ ret.value.ai_probability <= 10000
           /\ raw_response.shape \in {"list_label_score", "list_candidates", "list_nested"}
                  => ret.value.ai_probability = CandidateProbability(BestCandidate(raw_response))
           /\ (raw_response.shape = "dict_labels_scores"
               /\ requested[Len(requested)] = ClassificationModel)
                  => ret.value.ai_probability = SelectedLabelProbability(raw_response)

\* C25: for a text with no marker word, no transition word and 10 sentences of 12 words each, the ai_probability of analyze_text lies in [20, 40) and the confidence level is the Low-Medium one, whatever the grammar-perfection, repetition and entropy of the text.
C25_FixtureInLowMediumBand ==
    (fixture.pc = "analyzed" /\ fixture.buzzword_count = 0 /\ fixture.transition_count = 0)
        => /\ 2000 <= rule_results.ai_probability
           /\ rule_results.ai_probability < 4000
           /\ rule_results.confidence_level = <<"L","o","w","-","M","e","d","i","u","m"," ","C","o","n","f","i","d","e","n","c","e"," ","-"," ","U","n","l","i","k","e","l","y"," ","A","I"," ","G","e","n","e","r","a","t","e","d">>

\* C23: when two analyze_web_presence calls overlap on the one WebIntelligenceEngine of the process, every HTTP probe of a request goes through the session of that request, and a request that finishes and closes its session never makes a probe of the other request fail.
C23_ProbesUseOwnSession ==
    \A r \in Requests :
        /\ ~engine.req[r].foreign_session
        /\ ~engine.req[r].closed_session

====
